---------------------------- MODULE Spec2Model ----------------------------
(***************************************************************************)
(* Mantaray manifest trie (ethersphere/manifest, package mantaray).         *)
(*                                                                         *)
(* A Node is a record; a Go nil slice / nil map is told apart from an      *)
(* empty one by the flags refNil and forksNil.  Operations that mutate the *)
(* receiver in place return the receiver's new value together with the     *)
(* error, so that the effects left behind by a failing call are kept.      *)
(***************************************************************************)
EXTENDS Integers, Sequences, FiniteSets, TLC

VARIABLES
    root,      \* the in-memory root *Node
    store,     \* the LoadSaver's chunk store: reference -> bytes
    stored,    \* history: path -> entry, the paths added and not since removed
    opsSeen,   \* history: the names of the operations performed so far
    distinct,  \* history: no path was added twice
    last,      \* history: the operation just performed and its outcome
    before,    \* history: the operation performed before `last`
    nops,      \* number of operations performed
    crashed,   \* the process died in a Go run-time panic
    codec,     \* a node taken through MarshalBinary and UnmarshalBinary
    saving,    \* a Save in progress: its goroutines, errc and closed
    manifest,  \* the flat-map Manifest of package simple
    walking,   \* a parallel walk in progress: its goroutines and callbacks
    each,      \* an EachEntryAsync in progress: the lock and the callbacks
    iterating  \* the loop of bitsForBytes.iter: its counter and its calls

vars == <<root, store, stored, opsSeen, distinct, last, before, nops, crashed, codec, saving, manifest, walking, each, iterating>>

---------------------------------------------------------------------------
(* Bytes and byte strings *)

PathSeparator == 47

Min(a, b) == IF a < b THEN a ELSE b

\* make([]byte, n) followed by copy(dst, src)
PadTo(src, n) == [i \in 1..n |-> IF i <= Len(src) THEN src[i] ELSE 0]

\* s[from:to] of Go, with 0-based half-open bounds
Slice(s, from, to) == SubSeq(s, from + 1, to)

Repeat(b, n) == [i \in 1..n |-> b]

\* bytes.HasPrefix(s, p) / bytes.Index(s, p) == 0
IsPrefixOf(p, s) == Len(p) <= Len(s) /\ SubSeq(s, 1, Len(p)) = p

\* bytes.IndexRune(path, r): 0-based index of the first r, -1 when absent
IndexRune(path, r) ==
    IF \E i \in 1..Len(path) : path[i] = r
    THEN (CHOOSE i \in 1..Len(path) :
              path[i] = r /\ \A j \in 1..(i - 1) : path[j] # r) - 1
    ELSE -1

---------------------------------------------------------------------------
(* Node type flags *)

nodeTypeValue == 2

nodeTypeEdge == 4

nodeTypeWithPathSeparator == 8

\* t & flag == flag, for a single-bit flag
HasFlag(t, flag) == (t \div flag) % 2 = 1

SetFlag(t, flag) == IF HasFlag(t, flag) THEN t ELSE t + flag

ClearFlag(t, flag) == IF HasFlag(t, flag) THEN t - flag ELSE t

isValueType(n) == HasFlag(n.nodeType, nodeTypeValue)

isEdgeType(n) == HasFlag(n.nodeType, nodeTypeEdge)

isWithPathSeparatorType(n) == HasFlag(n.nodeType, nodeTypeWithPathSeparator)

makeValue(n) == [n EXCEPT !.nodeType = SetFlag(@, nodeTypeValue)]

makeEdge(n) == [n EXCEPT !.nodeType = SetFlag(@, nodeTypeEdge)]

makeWithPathSeparator(n) ==
    [n EXCEPT !.nodeType = SetFlag(@, nodeTypeWithPathSeparator)]

makeNotWithPathSeparator(n) ==
    [n EXCEPT !.nodeType = ClearFlag(@, nodeTypeWithPathSeparator)]

updateIsWithPathSeparator(n, path) ==
    IF IndexRune(path, PathSeparator) > 0
    THEN makeWithPathSeparator(n)
    ELSE makeNotWithPathSeparator(n)

---------------------------------------------------------------------------
(* Nodes *)

NoForks == [k \in {} |-> 0]

\* New(): forks is an empty, non-nil map
New ==
    [nodeType |-> 0, refNil |-> TRUE, ref |-> <<>>, entry |-> <<>>,
     forksNil |-> FALSE, forks |-> NoForks,
     obfuscationKey |-> <<>>, refBytesSize |-> 0]

\* NewNodeRef(ref): forks is nil
NewNodeRef(ref) ==
    [nodeType |-> 0, refNil |-> FALSE, ref |-> ref, entry |-> <<>>,
     forksNil |-> TRUE, forks |-> NoForks,
     obfuscationKey |-> <<>>, refBytesSize |-> 0]

\* m[k] = f on a non-nil map
SetFork(forks, k, f) ==
    [x \in (DOMAIN forks) \cup {k} |-> IF x = k THEN f ELSE forks[x]]

\* delete(m, k)
DeleteFork(forks, k) == [x \in (DOMAIN forks) \ {k} |-> forks[x]]

Ok(n) == [node |-> n, err |-> "ok"]

Fail(n, e) == [node |-> n, err |-> e]

\* common that stops one byte early
commonShort(a, b) ==
    LET m == Min(Len(a), Len(b))
        d == {i \in 1..m : a[i] # b[i]}
        len == IF d = {} THEN m
               ELSE (CHOOSE i \in d : \A j \in d : i <= j) - 1
    IN  SubSeq(a, 1, IF len > 1 THEN len - 1 ELSE len)

common(a, b) ==
    LET m == Min(Len(a), Len(b))
        d == {i \in 1..m : a[i] # b[i]}
        len == IF d = {} THEN m
               ELSE (CHOOSE i \in d : \A j \in d : i <= j) - 1
    IN  SubSeq(a, 1, len)

---------------------------------------------------------------------------
(* Binary codec (marshal.go, version 0.1 with the obfuscation key) *)

nodeObfuscationKeySize == 32

versionHashSize == 31

nodeRefBytesSize == 1

nodeHeaderSize == nodeObfuscationKeySize + versionHashSize + nodeRefBytesSize

nodeForkTypeBytesSize == 1

nodeForkPrefixBytesSize == 1

nodeForkHeaderSize == nodeForkTypeBytesSize + nodeForkPrefixBytesSize

nodeForkPreReferenceSize == 32

nodePrefixMaxSize == nodeForkPreReferenceSize - nodeForkHeaderSize

\* Keccak-256("mantaray:0.1"), the first versionHashSize bytes
version01HashBytes ==
    <<2, 81, 132, 120, 157, 99, 99, 87, 102, 215, 140, 65, 144, 1, 150, 181,
      125, 116, 0, 135, 94, 190, 77, 155, 93, 30, 118, 189, 150, 82, 169>>

\* a ^ b on bytes
RECURSIVE Xor(_, _)
Xor(a, b) ==
    IF a = 0 THEN b
    ELSE IF b = 0 THEN a
    ELSE ((a + b) % 2) + 2 * Xor(a \div 2, b \div 2)

encryptDecrypt(input, key) ==
    [i \in 1..Len(input) |-> Xor(input[i], key[((i - 1) % Len(key)) + 1])]

\* The XOR loops of MarshalBinary and UnmarshalBinary:
\*   for i := nodeObfuscationKeySize; i < len(bytes); i += nodeObfuscationKeySize
RECURSIVE xorChunks(_, _, _)
xorChunks(bytes, key, i) ==
    IF i >= Len(bytes) THEN <<>>
    ELSE LET end == Min(i + nodeObfuscationKeySize, Len(bytes))
         IN  encryptDecrypt(Slice(bytes, i, end), key)
                 \o xorChunks(bytes, key, i + nodeObfuscationKeySize)

\* the obfuscation key in clear, every later byte XORed
XorAfterKey(bytes, key) ==
    Slice(bytes, 0, nodeObfuscationKeySize)
        \o xorChunks(bytes, key, nodeObfuscationKeySize)

(* bitsForBytes: a [32]byte bit vector *)

bbEmpty == [i \in 1..32 |-> 0]

bbGetUint8(bits, i) == (bits[(i \div 8) + 1] \div (2 ^ (i % 8))) % 2 > 0

bbSet(bits, b) ==
    IF bbGetUint8(bits, b) THEN bits
    ELSE [bits EXCEPT ![(b \div 8) + 1] = @ + 2 ^ (b % 8)]

\* for k := range n.forks { index.set(k) }
RECURSIVE bbOfKeys(_)
bbOfKeys(keys) ==
    IF keys = {} THEN bbEmpty
    ELSE LET k == CHOOSE x \in keys : TRUE
         IN  bbSet(bbOfKeys(keys \ {k}), k)

bbFromBytes(b) == PadTo(b, 32)

\* iter: the bytes passed to the callback, in the order of the calls, by the
\* loop  for i := uint8(0); ; i++ { if bb.getUint8(i) { f(i) }; if i == 255 { return } }
iter(bits) ==
    SelectSeq([j \in 1..256 |-> j - 1], LAMBDA i : bbGetUint8(bits, i))

nodeRefBytes(f) == IF f.node.refNil THEN <<>> ELSE f.node.ref

\* fork.bytes
forkBytes(f) ==
    LET r == nodeRefBytes(f)
    IN  IF Len(r) > 256
        THEN [bytes |-> <<>>, err |-> "node reference size > 256"]
        ELSE [bytes |-> <<f.node.nodeType, Len(f.prefix) % 256>>
                          \o PadTo(f.prefix, nodePrefixMaxSize) \o r,
              err |-> "ok"]

\* fork.fromBytes
forkFromBytes(b) ==
    LET nodeType  == b[1]
        prefixLen == b[2]
    IN  IF prefixLen = 0 \/ prefixLen > nodePrefixMaxSize
        THEN [fork |-> <<>>, err |-> "invalid prefix length"]
        ELSE [fork |-> [prefix |-> Slice(b, nodeForkHeaderSize,
                                         nodeForkHeaderSize + prefixLen),
                        node |-> [NewNodeRef(Slice(b, nodeForkPreReferenceSize, Len(b)))
                                      EXCEPT !.nodeType = nodeType]],
              err |-> "ok"]

\* index.iter of MarshalBinary: append each fork's bytes, stop at the first error
appendFork(acc, fb) ==
    IF fb.err # "ok" THEN [bytes |-> <<>>, err |-> fb.err]
    ELSE [bytes |-> acc.bytes \o fb.bytes, err |-> "ok"]

RECURSIVE marshalForks(_, _, _)
marshalForks(forks, keys, acc) ==
    IF keys = <<>> \/ acc.err # "ok" THEN acc
    ELSE marshalForks(forks, Tail(keys), appendFork(acc, forkBytes(forks[Head(keys)])))

\* MarshalBinary, from the XOR loop on
marshalXor(n, fs) ==
    IF fs.err # "ok" THEN [node |-> n, bytes |-> <<>>, err |-> fs.err]
    ELSE [node |-> n, bytes |-> XorAfterKey(fs.bytes, n.obfuscationKey), err |-> "ok"]

\* MarshalBinary, from the header on (the obfuscation key is set)
marshalBody(n, indexBytes) ==
    marshalXor(n,
        marshalForks(n.forks, iter(indexBytes),
            [bytes |-> PadTo(n.obfuscationKey, nodeObfuscationKeySize)
                         \o version01HashBytes \o <<n.refBytesSize % 256>>
                         \o PadTo(n.entry, n.refBytesSize)
                         \o indexBytes,
             err |-> "ok"]))

\* MarshalBinary that takes a new obfuscation key at every call
MarshalBinaryNewKey(n, key) ==
    IF n.forksNil THEN [node |-> n, bytes |-> <<>>, err |-> "ErrInvalid"]
    ELSE marshalBody([n EXCEPT !.obfuscationKey = key], bbOfKeys(DOMAIN n.forks))

\* MarshalBinary; key is what obfuscationKeyFn yields if it is called
MarshalBinary(n, key) ==
    IF n.forksNil THEN [node |-> n, bytes |-> <<>>, err |-> "ErrInvalid"]
    ELSE marshalBody(IF Len(n.obfuscationKey) = 0
                     THEN [n EXCEPT !.obfuscationKey = key] ELSE n,
                     bbOfKeys(DOMAIN n.forks))

\* bb.iter of UnmarshalBinary: one fork per set bit, stop at the first error
putFork(n, k, fb) ==
    IF fb.err # "ok" THEN Fail(n, fb.err)
    ELSE Ok([n EXCEPT !.forks = SetFork(@, k, fb.fork)])

RECURSIVE unmarshalForks(_, _, _, _, _)
unmarshalForks(r, data, keys, offset, refBytesSize) ==
    IF keys = <<>> \/ r.err # "ok" THEN r
    ELSE IF Len(data) < offset + nodeForkPreReferenceSize + refBytesSize
    THEN Fail(r.node, "not enough bytes for node fork")
    ELSE unmarshalForks(
             putFork(r.node, Head(keys),
                     forkFromBytes(Slice(data, offset,
                         offset + nodeForkPreReferenceSize + refBytesSize))),
             data, Tail(keys),
             offset + nodeForkPreReferenceSize + refBytesSize, refBytesSize)

\* UnmarshalBinary, from the version check on; data is the de-obfuscated
\* input.  A slice expression out of range is a run-time panic.
unmarshalData(n, data, refBytesSize) ==
    IF Slice(data, nodeObfuscationKeySize, nodeObfuscationKeySize + versionHashSize)
           # version01HashBytes
    THEN Fail(n, "invalid version hash")
    ELSE IF nodeHeaderSize + refBytesSize > Len(data) THEN Fail(n, "panic")
    ELSE unmarshalForks(
             Ok([n EXCEPT !.entry = Slice(data, nodeHeaderSize,
                                          nodeHeaderSize + refBytesSize),
                          !.forksNil = FALSE, !.forks = NoForks]),
             data,
             iter(bbFromBytes(Slice(data, nodeHeaderSize + refBytesSize, Len(data)))),
             nodeHeaderSize + refBytesSize + 32, refBytesSize)

unmarshalKeyed(n, data) == unmarshalData(n, data, data[nodeHeaderSize])

\* UnmarshalBinary
UnmarshalBinary(n, bytes) ==
    IF Len(bytes) < nodeHeaderSize THEN Fail(n, "ErrTooShort")
    ELSE unmarshalKeyed(
             [n EXCEPT !.obfuscationKey = Slice(bytes, 0, nodeObfuscationKeySize)],
             XorAfterKey(bytes, Slice(bytes, 0, nodeObfuscationKeySize)))

---------------------------------------------------------------------------
(* The LoadSaver of persist_test.go: a map from a 32-byte address to bytes *)

NoLoader == [nil |-> TRUE, store |-> NoForks]

LoadSaver(st) == [nil |-> FALSE, store |-> st]

\* var a addr; copy(a[:], ab)
addrOf(ab) == PadTo(ab, 32)

\* mockLoadSaver.Load
mockLoad(st, ab) ==
    IF addrOf(ab) \in DOMAIN st
    THEN [bytes |-> st[addrOf(ab)], err |-> "ok"]
    ELSE [bytes |-> <<>>, err |-> "ErrNotFound"]

\* The address of a chunk: equal bytes give equal addresses, different bytes
\* different ones (the n-th distinct chunk saved gets the address 0...0n).
hashOf(st, b) ==
    IF \E a \in DOMAIN st : st[a] = b
    THEN CHOOSE a \in DOMAIN st : st[a] = b
    ELSE [i \in 1..32 |-> IF i = 32 THEN Cardinality(DOMAIN st) + 1 ELSE 0]

putChunk(st, a, b) ==
    [ref |-> a, err |-> "ok",
     store |-> [x \in (DOMAIN st) \cup {a} |-> IF x = a THEN b ELSE st[x]]]

\* mockLoadSaver.Save
mockSave(st, b) == putChunk(st, hashOf(st, b), b)

loadBytes(n, b) ==
    IF b.err # "ok" THEN Fail(n, b.err) ELSE UnmarshalBinary(n, b.bytes)

\* Node.load
load(n, l) ==
    IF n.refNil THEN Ok(n)
    ELSE IF l.nil THEN Fail(n, "ErrNoLoader")
    ELSE loadBytes(n, mockLoad(l.store, n.ref))

\* if n.forks == nil { if err := n.load(l); err != nil { return err } }
loadIfNil(n, l) == IF n.forksNil THEN load(n, l) ELSE Ok(n)

---------------------------------------------------------------------------
(* Radix operations (node.go) *)

\* LookupNode: node is the receiver afterwards (load materialises it in
\* place), found the node the path leads to
RECURSIVE LookupNode(_, _, _)

\* return f.Node.LookupNode(path[len(c):], l)
lookupChild(n, k, r) ==
    [node |-> [n EXCEPT !.forks[k].node = r.node], found |-> r.found, err |-> r.err]

lookupFork(n, path, l, f, c) ==
    IF Len(c) = Len(f.prefix)
    THEN lookupChild(n, path[1],
                     LookupNode(f.node, Slice(path, Len(c), Len(path)), l))
    ELSE [node |-> n, found |-> New, err |-> "ErrNotFound"]

\* as below, on a node that forgets its reference once it is loaded, the
\* way Add does
lookupLoadedClearsRef(ld, path, l) ==
    IF ld.err # "ok" THEN [node |-> ld.node, found |-> New, err |-> ld.err]
    ELSE IF Len(path) = 0
    THEN [node |-> [ld.node EXCEPT !.refNil = TRUE, !.ref = <<>>],
          found |-> ld.node, err |-> "ok"]
    ELSE IF ld.node.forksNil \/ path[1] \notin DOMAIN ld.node.forks
    THEN [node |-> [ld.node EXCEPT !.refNil = TRUE, !.ref = <<>>],
          found |-> New, err |-> "ErrNotFound"]
    ELSE lookupFork([ld.node EXCEPT !.refNil = TRUE, !.ref = <<>>], path, l,
                    ld.node.forks[path[1]],
                    common(ld.node.forks[path[1]].prefix, path))

lookupLoaded(ld, path, l) ==
    IF ld.err # "ok" THEN [node |-> ld.node, found |-> New, err |-> ld.err]
    ELSE IF Len(path) = 0 THEN [node |-> ld.node, found |-> ld.node, err |-> "ok"]
    ELSE IF ld.node.forksNil \/ path[1] \notin DOMAIN ld.node.forks
    THEN [node |-> ld.node, found |-> New, err |-> "ErrNotFound"]
    ELSE lookupFork(ld.node, path, l, ld.node.forks[path[1]],
                    common(ld.node.forks[path[1]].prefix, path))

LookupNode(n, path, l) == lookupLoaded(loadIfNil(n, l), path, l)

lookupEntry(r) ==
    [node |-> r.node,
     entry |-> IF r.err = "ok" THEN r.found.entry ELSE <<>>,
     err |-> r.err]

\* Lookup
Lookup(n, path, l) == lookupEntry(LookupNode(n, path, l))

\* The entry-width rule of Add: the width is fixed by the first non-empty
\* entry, and a later non-empty entry of another width is refused.
AddRefBytesSize(n, entry) ==
    IF n.refBytesSize = 0
    THEN IF Len(entry) > 256 THEN Fail(n, "EntrySizeMismatch")
         ELSE IF Len(entry) > 0 THEN Ok([n EXCEPT !.refBytesSize = Len(entry)])
         ELSE Ok(n)
    ELSE IF Len(entry) > 0 /\ n.refBytesSize # Len(entry)
         THEN Fail(n, "EntrySizeMismatch")
         ELSE Ok(n)

\* A node created inside Add carries the entry width of the manifest.
NewIn(n) == [New EXCEPT !.refBytesSize = n.refBytesSize]

RECURSIVE Add(_, _, _, _)

\* Add, no fork on path[0], len(path) > 32: after nn.Add(rest, entry, ls)
addChained(n, prefix, r) ==
    IF r.err # "ok" THEN Fail(n, r.err)
    ELSE Ok(makeEdge([n EXCEPT !.forks =
             SetFork(@, prefix[1],
                     [prefix |-> prefix,
                      node |-> updateIsWithPathSeparator(r.node, prefix)])]))

\* addNewFork without "nn.entry = entry" on the short path
addNewForkNoEntry(n, path, entry, ls) ==
    IF Len(path) > 32
    THEN addChained(n, Slice(path, 0, 32),
                    Add(NewIn(n), Slice(path, 32, Len(path)), entry, ls))
    ELSE Ok(makeEdge([n EXCEPT !.forks =
             SetFork(@, path[1],
                     [prefix |-> path,
                      node |-> updateIsWithPathSeparator(makeValue(NewIn(n)), path)])]))

\* addNewFork that chains every path longer than one byte
addNewForkByteWise(n, path, entry, ls) ==
    IF Len(path) > 1
    THEN addChained(n, Slice(path, 0, 1),
                    Add(NewIn(n), Slice(path, 1, Len(path)), entry, ls))
    ELSE Ok(makeEdge([n EXCEPT !.forks =
             SetFork(@, path[1],
                     [prefix |-> path,
                      node |-> updateIsWithPathSeparator(
                                   makeValue([NewIn(n) EXCEPT !.entry = entry]),
                                   path)])]))

\* Add, no fork on path[0]
addNewFork(n, path, entry, ls) ==
    IF Len(path) > 32
    THEN addChained(n, Slice(path, 0, 32),
                    Add(NewIn(n), Slice(path, 32, Len(path)), entry, ls))
    ELSE Ok(makeEdge([n EXCEPT !.forks =
             SetFork(@, path[1],
                     [prefix |-> path,
                      node |-> updateIsWithPathSeparator(
                                   makeValue([NewIn(n) EXCEPT !.entry = entry]),
                                   path)])]))

\* Add, a fork on path[0]: after nn.Add(path[len(c):], entry, ls).  On an
\* error the fork is not replaced; what was changed in place stays (moved
\* is f.Node after f.Node.updateIsWithPathSeparator(rest)).
addReplace(n, k, c, rest, moved, r) ==
    IF r.err # "ok"
    THEN IF Len(rest) > 0
         THEN Fail([n EXCEPT !.forks[k].node = moved], r.err)
         ELSE Fail([n EXCEPT !.forks[k].node = r.node], r.err)
    ELSE Ok(makeEdge([n EXCEPT !.forks =
             SetFork(@, k, [prefix |-> c, node |-> r.node])]))

\* addInto with the moved child filed under the last byte of its prefix
addIntoLastKey(n, rest, moved) ==
    IF Len(rest) > 0
    THEN makeEdge([NewIn(n) EXCEPT !.forks =
             SetFork(@, rest[Len(rest)], [prefix |-> rest, node |-> moved])])
    ELSE moved

\* Add, a fork on path[0]: the node to descend into, a new one above the
\* moved child when the fork's prefix goes on after the common part
addInto(n, rest, moved) ==
    IF Len(rest) > 0
    THEN makeEdge([NewIn(n) EXCEPT !.forks =
             SetFork(@, rest[1], [prefix |-> rest, node |-> moved])])
    ELSE moved

addSplit(n, path, entry, ls, c, rest, moved) ==
    addReplace(n, path[1], c, rest, moved,
               Add(updateIsWithPathSeparator(addInto(n, rest, moved), path),
                   Slice(path, Len(c), Len(path)), entry, ls))

addCommon(n, path, entry, ls, f, c) ==
    addSplit(n, path, entry, ls, c, Slice(f.prefix, Len(c), Len(f.prefix)),
             IF Len(c) < Len(f.prefix)
             THEN updateIsWithPathSeparator(f.node, Slice(f.prefix, Len(c), Len(f.prefix)))
             ELSE f.node)

\* Add, after the load.  A write to a nil map (n.forks[k] = ... after a
\* load that found no reference) is a run-time panic.
addAt(n, path, entry, ls) ==
    IF n.forksNil THEN Fail(n, "panic")
    ELSE IF path[1] \notin DOMAIN n.forks THEN addNewFork(n, path, entry, ls)
    ELSE addCommon(n, path, entry, ls, n.forks[path[1]],
                   common(n.forks[path[1]].prefix, path))

\* if n.forks == nil { load; n.ref = nil }
addLoaded(wasNil, ld, path, entry, ls) ==
    IF ld.err # "ok" THEN ld
    ELSE addAt(IF wasNil THEN [ld.node EXCEPT !.refNil = TRUE, !.ref = <<>>]
               ELSE ld.node,
               path, entry, ls)

\* addChecked where an empty path leaves an entry already there alone
addCheckedKeep(w, path, entry, ls) ==
    IF w.err # "ok" THEN w
    ELSE IF Len(path) = 0
    THEN Ok([w.node EXCEPT !.entry = IF Len(@) > 0 THEN @ ELSE entry,
                           !.refNil = TRUE, !.ref = <<>>])
    ELSE addLoaded(w.node.forksNil, loadIfNil(w.node, ls), path, entry, ls)

addChecked(w, path, entry, ls) ==
    IF w.err # "ok" THEN w
    ELSE IF Len(path) = 0
    THEN Ok([w.node EXCEPT !.entry = entry, !.refNil = TRUE, !.ref = <<>>])
    ELSE addLoaded(w.node.forksNil, loadIfNil(w.node, ls), path, entry, ls)

\* Add
Add(n, path, entry, ls) == addChecked(AddRefBytesSize(n, entry), path, entry, ls)

RECURSIVE Remove(_, _, _)

\* the return below, with a child that is left with one fork and no entry
\* merged into the fork that leads to it
removeChildCollapsing(n, k, r) ==
    IF r.err = "ok" /\ Cardinality(DOMAIN r.node.forks) = 1 /\ ~isValueType(r.node)
    THEN LET only == r.node.forks[CHOOSE j \in DOMAIN r.node.forks : TRUE]
         IN  [node |-> [n EXCEPT !.forks[k] =
                           [prefix |-> n.forks[k].prefix \o only.prefix,
                            node |-> only.node]],
              err |-> r.err]
    ELSE [node |-> [n EXCEPT !.forks[k].node = r.node], err |-> r.err]

\* return f.Node.Remove(rest, ls)
removeChild(n, k, r) == [node |-> [n EXCEPT !.forks[k].node = r.node], err |-> r.err]

removeFork(n, path, ls, f) ==
    IF ~IsPrefixOf(f.prefix, path) THEN Fail(n, "ErrNotFound")
    ELSE IF Len(path) = Len(f.prefix)
    THEN Ok([n EXCEPT !.forks = DeleteFork(@, path[1])])
    ELSE removeChild(n, path[1],
                     Remove(f.node, Slice(path, Len(f.prefix), Len(path)), ls))

removeLoaded(ld, path, ls) ==
    IF ld.err # "ok" THEN ld
    ELSE IF ld.node.forksNil \/ path[1] \notin DOMAIN ld.node.forks
    THEN Fail(ld.node, "ErrNotFound")
    ELSE removeFork(ld.node, path, ls, ld.node.forks[path[1]])

\* Remove that loads the node before it looks at the length of the path
RemoveLoadsFirst(n, path, ls) ==
    IF Len(path) = 0 THEN Fail(loadIfNil(n, ls).node, "ErrEmptyPath")
    ELSE removeLoaded(loadIfNil(n, ls), path, ls)

\* Remove
Remove(n, path, ls) ==
    IF Len(path) = 0 THEN Fail(n, "ErrEmptyPath")
    ELSE removeLoaded(loadIfNil(n, ls), path, ls)

\* HasPrefix: as LookupNode, and also true when what is left of the query is
\* a prefix of the fork's prefix
RECURSIVE HasPrefix(_, _, _)

hasPrefixChild(n, k, r) ==
    [node |-> [n EXCEPT !.forks[k].node = r.node], has |-> r.has, err |-> r.err]

hasPrefixFork(n, path, l, f, c) ==
    IF Len(c) = Len(f.prefix)
    THEN hasPrefixChild(n, path[1],
                        HasPrefix(f.node, Slice(path, Len(c), Len(path)), l))
    ELSE [node |-> n, has |-> IsPrefixOf(path, f.prefix), err |-> "ok"]

hasPrefixLoaded(ld, path, l) ==
    IF ld.err # "ok" THEN [node |-> ld.node, has |-> FALSE, err |-> ld.err]
    ELSE IF Len(path) = 0 THEN [node |-> ld.node, has |-> TRUE, err |-> "ok"]
    ELSE IF ld.node.forksNil \/ path[1] \notin DOMAIN ld.node.forks
    THEN [node |-> ld.node, has |-> FALSE, err |-> "ok"]
    ELSE hasPrefixFork(ld.node, path, l, ld.node.forks[path[1]],
                       common(ld.node.forks[path[1]].prefix, path))

HasPrefix(n, path, l) == hasPrefixLoaded(loadIfNil(n, l), path, l)

---------------------------------------------------------------------------
(* Walkers (node.go).  The callback collects what it is called with and    *)
(* returns nil; a range over the fork map visits the keys in the order     *)
(* given by desc.                                                          *)

\* the keys of a fork table, ascending or descending
RECURSIVE KeysInOrder(_, _)
KeysInOrder(keys, desc) ==
    IF keys = {} THEN <<>>
    ELSE LET k == CHOOSE x \in keys :
                      \A y \in keys : IF desc THEN y <= x ELSE x <= y
         IN  <<k>> \o KeysInOrder(keys \ {k}, desc)

RECURSIVE walkNode(_, _, _, _)

\* err := walkNode(nextPath, l, v.Node, walkFn) of one fork
walkNodeChild(st, k, r) ==
    [node |-> [st.node EXCEPT !.forks[k].node = r.node],
     calls |-> st.calls \o r.calls, err |-> r.err]

\* for _, v := range n.forks
RECURSIVE walkNodeForks(_, _, _, _, _)
walkNodeForks(st, path, keys, l, desc) ==
    IF keys = <<>> \/ st.err # "ok" THEN st
    ELSE walkNodeForks(
             walkNodeChild(st, Head(keys),
                 walkNode(path \o st.node.forks[Head(keys)].prefix, l,
                          st.node.forks[Head(keys)].node, desc)),
             path, Tail(keys), l, desc)

walkNodeEdges(st, path, l, desc) ==
    IF isEdgeType(st.node)
    THEN walkNodeForks(st, path, KeysInOrder(DOMAIN st.node.forks, desc), l, desc)
    ELSE st

walkNodeLoaded(ld, path, l, desc) ==
    IF ld.err # "ok" THEN [node |-> ld.node, calls |-> <<>>, err |-> ld.err]
    ELSE walkNodeEdges(
             [node |-> ld.node,
              calls |-> IF isValueType(ld.node) THEN <<path>> ELSE <<>>,
              err |-> "ok"],
             path, l, desc)

\* walkNode: calls is the sequence of paths the callback was called with
walkNode(path, l, n, desc) == walkNodeLoaded(loadIfNil(n, l), path, l, desc)

\* WalkNode from the empty root path; an error of LookupNode goes to the
\* callback, which hands it back
WalkNode(n, l, desc) == walkNode(<<>>, l, n, desc)

RECURSIVE walk(_, _, _, _, _)

\* for i := 0; i < len(prefix); i++: a call (nextPath, true) at every
\* separator of prefix, with nextPath what precedes the separator
RECURSIVE walkPrefix(_, _, _)
walkPrefix(path, prefix, i) ==
    IF i >= Len(prefix) THEN <<>>
    ELSE (IF prefix[i + 1] = PathSeparator
          THEN <<[path |-> path \o Slice(prefix, 0, i), isDir |-> TRUE]>>
          ELSE <<>>)
         \o walkPrefix(path, prefix, i + 1)

\* if n.isValueType(): a call (nextPath, false) unless nextPath ends with a
\* separator; nextPath[len(nextPath)-1] of an empty nextPath is a panic
walkValue(n, nextPath) ==
    IF ~isValueType(n) THEN [calls |-> <<>>, err |-> "ok"]
    ELSE IF Len(nextPath) = 0 THEN [calls |-> <<>>, err |-> "panic"]
    ELSE IF nextPath[Len(nextPath)] = PathSeparator THEN [calls |-> <<>>, err |-> "ok"]
    ELSE [calls |-> <<[path |-> nextPath, isDir |-> FALSE]>>, err |-> "ok"]

walkChild(st, k, r) ==
    [node |-> [st.node EXCEPT !.forks[k].node = r.node],
     calls |-> st.calls \o r.calls, err |-> r.err]

RECURSIVE walkForks(_, _, _, _, _)
walkForks(st, nextPath, keys, l, desc) ==
    IF keys = <<>> \/ st.err # "ok" THEN st
    ELSE walkForks(
             walkChild(st, Head(keys),
                 walk(nextPath, st.node.forks[Head(keys)].prefix, l,
                      st.node.forks[Head(keys)].node, desc)),
             nextPath, Tail(keys), l, desc)

walkEdges(st, nextPath, l, desc) ==
    IF st.err = "ok" /\ isEdgeType(st.node)
    THEN walkForks(st, nextPath, KeysInOrder(DOMAIN st.node.forks, desc), l, desc)
    ELSE st

walkReport(n, dirs, v, nextPath, l, desc) ==
    walkEdges([node |-> n, calls |-> dirs \o v.calls, err |-> v.err],
              nextPath, l, desc)

walkLoaded(ld, path, prefix, l, desc) ==
    IF ld.err # "ok" THEN [node |-> ld.node, calls |-> <<>>, err |-> ld.err]
    ELSE walkReport(ld.node, walkPrefix(path, prefix, 0),
                    walkValue(ld.node, path \o prefix), path \o prefix, l, desc)

\* walk: calls is the sequence of (path, isDir) the callback was called with
walk(path, prefix, l, n, desc) == walkLoaded(loadIfNil(n, l), path, prefix, l, desc)

\* Walk from the empty root path
Walk(n, l, desc) == walk(<<>>, <<>>, l, n, desc)

---------------------------------------------------------------------------
(* Persist engine (Node.Save, Node.save) *)

\* save, with the goroutines of the children run one after the other in the
\* order given by desc; key is what obfuscationKeyFn yields.  A save state
\* carries the node, the saver's store, the error channel errc (capacity 1,
\* "ok" when empty) and whether the channel closed has been closed.
RECURSIVE save(_, _, _, _, _, _)

\* f.Node.save(s, errc, closed) of one child
savedChild(n, k, r) ==
    [node |-> [n EXCEPT !.forks[k].node = r.node],
     store |-> r.store, errc |-> r.errc, closed |-> r.closed]

RECURSIVE saveForks(_, _, _, _)
saveForks(st, keys, key, desc) ==
    IF keys = <<>> THEN st
    ELSE saveForks(
             savedChild(st.node, Head(keys),
                 save(st.node.forks[Head(keys)].node, st.store, st.errc, st.closed,
                      key, desc)),
             Tail(keys), key, desc)

\* n.ref, err = s.Save(bytes); errc <- err, close(closed); n.forks = nil
saveDone(ch, n, sv) ==
    [node |-> [n EXCEPT !.ref = sv.ref, !.refNil = (sv.err # "ok"),
                        !.forksNil = TRUE, !.forks = NoForks],
     store |-> sv.store,
     errc |-> IF sv.err # "ok" /\ ch.errc = "ok" THEN sv.err ELSE ch.errc,
     closed |-> ch.closed \/ (sv.err # "ok" /\ ch.errc = "ok")]

saveBytes(ch, m) ==
    IF m.err = "ok" THEN saveDone(ch, m.node, mockSave(ch.store, m.bytes))
    ELSE saveDone(ch, m.node, [ref |-> <<>>, err |-> m.err, store |-> ch.store])

\* save, after wg.Wait()
saveSelf(ch, key) ==
    IF ch.closed THEN ch ELSE saveBytes(ch, MarshalBinary(ch.node, key))

\* save without the early return for a node that has a reference
saveAgain(n, store0, errc, closed, key, desc) ==
    saveSelf(
        saveForks([node |-> n, store |-> store0, errc |-> errc, closed |-> closed],
                  KeysInOrder(IF n.forksNil THEN {} ELSE DOMAIN n.forks, desc),
                  key, desc),
        key)

save(n, store0, errc, closed, key, desc) ==
    IF ~n.refNil
    THEN [node |-> n, store |-> store0, errc |-> errc, closed |-> closed]
    ELSE saveSelf(
             saveForks([node |-> n, store |-> store0, errc |-> errc, closed |-> closed],
                       KeysInOrder(IF n.forksNil THEN {} ELSE DOMAIN n.forks, desc),
                       key, desc),
             key)

saveResult(r) == [node |-> r.node, store |-> r.store, err |-> r.errc]

\* Save
Save(n, s, key, desc) ==
    IF s.nil THEN [node |-> n, store |-> s.store, err |-> "ErrNoSaver"]
    ELSE saveResult(save(n, s.store, "ok", FALSE, key, desc))

---------------------------------------------------------------------------
(* The flat-map manifest of package simple: a map from path to entry *)

MapSet(m, k, v) == [x \in (DOMAIN m) \cup {k} |-> IF x = k THEN v ELSE m[x]]

MapDel(m, k) == [x \in (DOMAIN m) \ {k} |-> m[x]]

\* NewEntry(reference)
NewEntry(reference) == [Ref |-> reference]

\* NewManifest()
NewManifest == [Entries |-> NoForks]

\* Manifest.Add
ManifestAdd(m, path, entry) ==
    IF Len(path) = 0 THEN [manifest |-> m, err |-> "ErrEmptyPath"]
    ELSE [manifest |-> [m EXCEPT !.Entries = MapSet(m.Entries, path, NewEntry(entry))],
          err |-> "ok"]

\* Manifest.Remove that answers ErrNotFound for a path that is not there
ManifestRemoveFound(m, path) ==
    IF Len(path) = 0 THEN [manifest |-> m, err |-> "ErrEmptyPath"]
    ELSE IF path \notin DOMAIN m.Entries THEN [manifest |-> m, err |-> "ErrNotFound"]
    ELSE [manifest |-> [m EXCEPT !.Entries = MapDel(m.Entries, path)], err |-> "ok"]

\* Manifest.Remove
ManifestRemove(m, path) ==
    IF Len(path) = 0 THEN [manifest |-> m, err |-> "ErrEmptyPath"]
    ELSE [manifest |-> [m EXCEPT !.Entries = MapDel(m.Entries, path)], err |-> "ok"]

\* Manifest.Lookup: a copy of the entry
ManifestLookup(m, path) ==
    IF path \notin DOMAIN m.Entries THEN [entry |-> NewEntry(<<>>), err |-> "ErrNotFound"]
    ELSE [entry |-> NewEntry(m.Entries[path].Ref), err |-> "ok"]

\* Manifest.Length
ManifestLength(m) == Cardinality(DOMAIN m.Entries)

---------------------------------------------------------------------------
(* The state machine: operations on one tree *)

MaxOps == 3

MaxOpsPersist == 4

\* paths of the in-memory runs: nested, branching, longer than a prefix, and
\* with a separator
Paths ==
    {<<97>>, <<97, 97>>, <<97, 98>>, <<97, 97, 98>>, <<98>>, Repeat(97, 33),
     <<97, PathSeparator, 98>>}

\* paths of the runs with a LoadSaver
PersistPaths == {<<97>>, <<97, 98>>, Repeat(97, 31)}

\* entries, as wide as the addresses of the LoadSaver
Entries == {Repeat(1, 32), Repeat(2, 32)}

\* what obfuscationKeyFn may yield
ObfuscationKeys == {[i \in 1..32 |-> (7 * i) % 256]}

NoOp == [op |-> "none", path |-> <<>>, entry |-> <<>>, err |-> "ok", has |-> FALSE]

\* the codec at rest
CodecIdle ==
    [pc |-> "idle", node |-> New, bytes |-> <<>>, merr |-> "ok",
     generated |-> FALSE, flipped |-> FALSE, truncated |-> FALSE,
     out |-> New, uerr |-> "ok"]

\* no Save in progress
SaveIdle ==
    [pc |-> NoForks, errc |-> "ok", closed |-> FALSE, handed |-> {}, failed |-> {},
     phase |-> "idle", err |-> "ok"]

\* no parallel walk in progress
WalkIdle ==
    [phase |-> "idle", kind |-> "node", pc |-> NoForks, calls |-> <<>>,
     failAt |-> {}, gerr |-> NoForks, ret |-> NoForks, late |-> {},
     cancelled |-> FALSE, failed |-> <<>>, err |-> <<>>]

\* no EachEntryAsync in progress
EachIdle ==
    [phase |-> "idle", mu |-> [writer |-> FALSE, readers |-> 0], pc |-> NoForks,
     caller |-> "idle", read |-> 0, reads |-> "none", failAt |-> {}, calls |-> <<>>,
     gerr |-> "ok", err |-> "ok"]

\* no iter in progress
IterIdle ==
    [pc |-> "idle", bits |-> bbEmpty, failOn |-> -1, i |-> 0, examined |-> 0,
     calls |-> <<>>, err |-> "ok"]

Init ==
    /\ root = New
    /\ codec = CodecIdle
    /\ saving = SaveIdle
    /\ manifest = NewManifest
    /\ walking = WalkIdle
    /\ each = EachIdle
    /\ iterating = IterIdle
    /\ store = NoForks
    /\ stored = NoForks
    /\ opsSeen = {}
    /\ distinct = TRUE
    /\ last = NoOp
    /\ before = NoOp
    /\ nops = 0
    /\ crashed = FALSE

Record(op, p, e, err, has) ==
    /\ last' = [op |-> op, path |-> p, entry |-> e, err |-> err, has |-> has]
    /\ before' = last
    /\ opsSeen' = opsSeen \cup {op}
    /\ nops' = nops + 1
    /\ crashed' = (err = "panic")
    /\ UNCHANGED <<codec, saving, manifest, walking, each, iterating>>

addDone(p, e, r) ==
    /\ root' = r.node
    /\ stored' = IF r.err = "ok" THEN MapSet(stored, p, e) ELSE stored
    /\ distinct' = (distinct /\ p \notin DOMAIN stored)
    /\ Record("Add", p, e, r.err, FALSE)
    /\ UNCHANGED store

DoAdd(p, e, ls) == addDone(p, e, Add(root, p, e, ls))

removeDone(p, r) ==
    /\ root' = r.node
    /\ stored' = IF r.err = "ok" THEN MapDel(stored, p) ELSE stored
    /\ Record("Remove", p, <<>>, r.err, FALSE)
    /\ UNCHANGED <<store, distinct>>

DoRemove(p, ls) == removeDone(p, Remove(root, p, ls))

lookupDone(p, r) ==
    /\ root' = r.node
    /\ Record("Lookup", p, r.entry, r.err, FALSE)
    /\ UNCHANGED <<store, stored, distinct>>

DoLookup(p, l) == lookupDone(p, Lookup(root, p, l))

hasPrefixDone(p, r) ==
    /\ root' = r.node
    /\ Record("HasPrefix", p, <<>>, r.err, r.has)
    /\ UNCHANGED <<store, stored, distinct>>

DoHasPrefix(p, l) == hasPrefixDone(p, HasPrefix(root, p, l))

saveOpDone(r) ==
    /\ root' = r.node
    /\ store' = r.store
    /\ Record("Save", <<>>, <<>>, r.err, FALSE)
    /\ UNCHANGED <<stored, distinct>>

DoSave(key, desc) == saveOpDone(Save(root, LoadSaver(store), key, desc))

(* In memory, with a nil LoadSaver, as in node_test.go *)

CanStep == nops < MaxOps /\ ~crashed

AddOp == \E p \in Paths, e \in Entries : CanStep /\ DoAdd(p, e, NoLoader)

RemoveOp == \E p \in Paths : CanStep /\ DoRemove(p, NoLoader)

LookupOp == \E p \in Paths : CanStep /\ DoLookup(p, NoLoader)

HasPrefixOp == \E p \in Paths : CanStep /\ DoHasPrefix(p, NoLoader)

Next == AddOp \/ RemoveOp \/ LookupOp \/ HasPrefixOp

Spec == Init /\ [][Next]_vars

(* With the LoadSaver, as in persist_test.go *)

CanStepPersist == nops < MaxOpsPersist /\ ~crashed

AddPersist ==
    \E p \in PersistPaths, e \in Entries :
        CanStepPersist /\ DoAdd(p, e, LoadSaver(store))

RemovePersist ==
    \E p \in PersistPaths \cup {<<>>} : CanStepPersist /\ DoRemove(p, LoadSaver(store))

LookupPersist ==
    \E p \in PersistPaths : CanStepPersist /\ DoLookup(p, LoadSaver(store))

SavePersist ==
    \E key \in ObfuscationKeys, desc \in BOOLEAN :
        CanStepPersist /\ DoSave(key, desc)

NextPersist == AddPersist \/ RemovePersist \/ LookupPersist \/ SavePersist

SpecPersist == Init /\ [][NextPersist]_vars

(* A persisted manifest used through stubs: with the LoadSaver, with a nil *)
(* loader, and reopened by its reference with NewNodeRef.                  *)

MaxOpsStub == 4

\* a file and a file below it, and a path that is never added
StubPaths == {<<97>>, <<97, PathSeparator, 98>>}

AbsentPath == <<98>>

\* an entry of another width than the 32 bytes of Entries
ShortEntry == Repeat(3, 2)

CanStepStub == nops < MaxOpsStub /\ ~crashed

AddStub ==
    \E p \in StubPaths, e \in {Repeat(1, 32), ShortEntry} :
        CanStepStub /\ DoAdd(p, e, LoadSaver(store))

LookupStub ==
    \E p \in StubPaths \cup {AbsentPath} :
        CanStepStub /\ DoLookup(p, LoadSaver(store))

SaveStub == \E key \in ObfuscationKeys : CanStepStub /\ DoSave(key, FALSE)

addNilDone(p, e, r) ==
    /\ root' = r.node
    /\ stored' = IF r.err = "ok" THEN MapSet(stored, p, e) ELSE stored
    /\ distinct' = (distinct /\ p \notin DOMAIN stored)
    /\ Record("Add(nil)", p, e, r.err, FALSE)
    /\ UNCHANGED store

\* n.Add(p, e, nil)
AddNil ==
    \E p \in StubPaths :
        CanStepStub /\ addNilDone(p, Repeat(2, 32), Add(root, p, Repeat(2, 32), NoLoader))

readNilDone(op, p, r, entry, has) ==
    /\ root' = r.node
    /\ Record(op, p, entry, r.err, has)
    /\ UNCHANGED <<store, stored, distinct>>

lookupNilDone(p, r) == readNilDone("Lookup(nil)", p, r, r.entry, FALSE)

\* n.Lookup(p, nil)
LookupNil ==
    \E p \in StubPaths : CanStepStub /\ lookupNilDone(p, Lookup(root, p, NoLoader))

removeNilDone(p, r) ==
    /\ root' = r.node
    /\ stored' = IF r.err = "ok" THEN MapDel(stored, p) ELSE stored
    /\ Record("Remove(nil)", p, <<>>, r.err, FALSE)
    /\ UNCHANGED <<store, distinct>>

\* n.Remove(p, nil)
RemoveNil ==
    \E p \in StubPaths : CanStepStub /\ removeNilDone(p, Remove(root, p, NoLoader))

hasPrefixNilDone(p, r) == readNilDone("HasPrefix(nil)", p, r, <<>>, r.has)

\* n.HasPrefix(p, nil)
HasPrefixNil ==
    \E p \in StubPaths : CanStepStub /\ hasPrefixNilDone(p, HasPrefix(root, p, NoLoader))

walkNilDone(r) == readNilDone("Walk(nil)", <<>>, r, <<>>, FALSE)

\* n.Walk([]byte{}, nil, walkFn)
WalkNil == CanStepStub /\ walkNilDone(Walk(root, NoLoader, FALSE))

\* another handle on the persisted manifest: NewNodeRef(ref)
Reopen ==
    /\ CanStepStub /\ ~root.refNil
    /\ root' = NewNodeRef(root.ref)
    /\ Record("Reopen", <<>>, <<>>, "ok", FALSE)
    /\ UNCHANGED <<store, stored, distinct>>

NextStub ==
    \/ AddStub \/ LookupStub \/ SaveStub
    \/ AddNil \/ LookupNil \/ RemoveNil \/ HasPrefixNil \/ WalkNil
    \/ Reopen

SpecStub == Init /\ [][NextStub]_vars

(* Save with its goroutines interleaved and a Saver that may fail.  A node  *)
(* of the tree is named by the keys of the forks that lead to it; saving.pc *)
(* holds the position of the goroutine that runs save on it.                *)

MaxOpsSave == 4

SavePaths == {<<97>>, <<97, 98>>, <<98>>}

\* the error of a Saver that fails
SaverError == "saver failed"

RECURSIVE NodeAt(_, _)
NodeAt(n, a) == IF a = <<>> THEN n ELSE NodeAt(n.forks[Head(a)].node, Tail(a))

RECURSIVE SetNodeAt(_, _, _)
SetNodeAt(n, a, v) ==
    IF a = <<>> THEN v
    ELSE [n EXCEPT !.forks[Head(a)].node = SetNodeAt(n.forks[Head(a)].node, Tail(a), v)]

\* the goroutines that save(n) starts, one for each fork
Spawned(pc, a, keys) ==
    [x \in (DOMAIN pc) \cup {a \o <<k>> : k \in keys} |->
        IF x = a THEN "wait"
        ELSE IF x \in DOMAIN pc THEN pc[x] ELSE "enter"]

SaveSteps(a) == saving.phase = "running" /\ a \in DOMAIN saving.pc

SaveKeeps ==
    UNCHANGED <<stored, opsSeen, distinct, last, before, nops, crashed, codec, manifest, walking, each, iterating>>

CanStepSave == nops < MaxOpsSave /\ ~crashed /\ saving.phase # "running"

AddSave ==
    \E p \in SavePaths :
        CanStepSave /\ DoAdd(p, Repeat(1, 32), LoadSaver(store))

\* Save: errc and closed are made, save(root) is called
SaveBegin ==
    /\ CanStepSave
    /\ saving' = [SaveIdle EXCEPT !.pc = MapSet(NoForks, <<>>, "enter"),
                                  !.phase = "running"]
    /\ UNCHANGED <<root, store>>
    /\ SaveKeeps

\* save: the early return, or one goroutine for each fork
saveEnter(a, n) ==
    /\ saving' = [saving EXCEPT !.pc =
                      IF ~n.refNil THEN MapSet(saving.pc, a, "done")
                      ELSE Spawned(saving.pc, a,
                                   IF n.forksNil THEN {} ELSE DOMAIN n.forks)]
    /\ UNCHANGED <<root, store>>
    /\ SaveKeeps

SaveEnter ==
    \E a \in DOMAIN saving.pc :
        /\ SaveSteps(a)
        /\ saving.pc[a] = "enter"
        /\ saveEnter(a, NodeAt(root, a))

\* wg.Wait() and the select on closed
saveWait(a, n) ==
    /\ \A k \in (IF n.forksNil THEN {} ELSE DOMAIN n.forks) :
           saving.pc[a \o <<k>>] = "done"
    /\ saving' = [saving EXCEPT !.pc =
                      MapSet(saving.pc, a, IF saving.closed THEN "done" ELSE "marshal")]
    /\ UNCHANGED <<root, store>>
    /\ SaveKeeps

SaveWait ==
    \E a \in DOMAIN saving.pc :
        /\ SaveSteps(a)
        /\ saving.pc[a] = "wait"
        /\ saveWait(a, NodeAt(root, a))

\* the node after n.ref, err = s.Save(bytes), with n.forks = nil when save is
\* over (the send on errc was not chosen)
savedNode(n, sv, over) ==
    [n EXCEPT !.ref = sv.ref, !.refNil = (sv.err # "ok"),
              !.forksNil = IF over THEN TRUE ELSE n.forksNil,
              !.forks = IF over THEN NoForks ELSE n.forks]

\* as below, with close(closed) after every error, sent or not
saveMarshalledAlwaysCloses(a, sv, n, isHanded) ==
    /\ root' = SetNodeAt(root, a, savedNode(n, sv, sv.err = "ok"))
    /\ store' = sv.store
    /\ saving' = [saving EXCEPT
           !.pc = MapSet(saving.pc, a, IF sv.err # "ok" THEN "close" ELSE "done"),
           !.errc = IF sv.err # "ok" /\ saving.errc = "ok" THEN sv.err ELSE saving.errc,
           !.handed = IF isHanded THEN saving.handed \cup {a} ELSE saving.handed,
           !.failed = IF sv.err # "ok" THEN saving.failed \cup {a} ELSE saving.failed]
    /\ SaveKeeps

\* n.MarshalBinary(), s.Save(bytes), and the select that sends on errc
saveMarshalled(a, sv, n, isHanded) ==
    /\ root' = SetNodeAt(root, a, savedNode(n, sv, sv.err = "ok" \/ saving.errc # "ok"))
    /\ store' = sv.store
    /\ saving' = [saving EXCEPT
           !.pc = MapSet(saving.pc, a,
                         IF sv.err # "ok" /\ saving.errc = "ok" THEN "close" ELSE "done"),
           !.errc = IF sv.err # "ok" /\ saving.errc = "ok" THEN sv.err ELSE saving.errc,
           !.handed = IF isHanded THEN saving.handed \cup {a} ELSE saving.handed,
           !.failed = IF sv.err # "ok" THEN saving.failed \cup {a} ELSE saving.failed]
    /\ SaveKeeps

saveMarshal(a, m, fail) ==
    IF m.err # "ok"
    THEN saveMarshalled(a, [ref |-> <<>>, err |-> m.err, store |-> store], m.node, FALSE)
    ELSE IF fail
    THEN saveMarshalled(a, [ref |-> <<>>, err |-> SaverError, store |-> store], m.node, TRUE)
    ELSE saveMarshalled(a, mockSave(store, m.bytes), m.node, TRUE)

SaveMarshal ==
    \E a \in DOMAIN saving.pc, key \in ObfuscationKeys, fail \in BOOLEAN :
        /\ SaveSteps(a)
        /\ saving.pc[a] = "marshal"
        /\ saveMarshal(a, MarshalBinary(NodeAt(root, a), key), fail)

\* close(closed) after the send on errc, then n.forks = nil
saveClose(a, n) ==
    /\ root' = SetNodeAt(root, a, [n EXCEPT !.forksNil = TRUE, !.forks = NoForks])
    /\ saving' = [saving EXCEPT !.pc = MapSet(saving.pc, a, "done"), !.closed = TRUE]
    /\ UNCHANGED store
    /\ SaveKeeps

SaveClose ==
    \E a \in DOMAIN saving.pc :
        /\ SaveSteps(a)
        /\ saving.pc[a] = "close"
        /\ saveClose(a, NodeAt(root, a))

\* Save: save(root) is over, the select on errc
SaveEnd ==
    /\ SaveSteps(<<>>)
    /\ saving.pc[<<>>] = "done"
    /\ saving' = [saving EXCEPT !.phase = "returned", !.err = saving.errc]
    /\ last' = [op |-> "Save", path |-> <<>>, entry |-> <<>>, err |-> saving.errc,
                has |-> FALSE]
    /\ before' = last
    /\ opsSeen' = opsSeen \cup {"Save"}
    /\ nops' = nops + 1
    /\ UNCHANGED <<root, store, stored, distinct, crashed, codec, manifest, walking, each, iterating>>

NextSave ==
    \/ AddSave \/ SaveBegin \/ SaveEnter \/ SaveWait \/ SaveMarshal \/ SaveClose
    \/ SaveEnd

SpecSave == Init /\ [][NextSave]_vars

(* The parallel walkers (eachNodeAsync, eachPathAsync) with their          *)
(* goroutines interleaved.  A frame of the recursion is named, like a node, *)
(* by the keys of the forks that lead to it.  An error is <<>> for nil and  *)
(* <<p>> for the error the callback returns at the path p.                  *)

MaxOpsWalk == 4

WalkPaths == {<<97>>, <<97, PathSeparator, 98>>, <<98>>}

WalkKinds == {"node", "path"}

\* the path of the frame a: the prefixes of the forks from the root
RECURSIVE PathAt(_, _)
PathAt(n, a) ==
    IF a = <<>> THEN <<>>
    ELSE n.forks[Head(a)].prefix \o PathAt(n.forks[Head(a)].node, Tail(a))

\* the frame that started the frame a
Parent(a) == SubSeq(a, 1, Len(a) - 1)

\* the prefix argument of the frame a of eachPathAsync
PrefixAt(n, a) ==
    IF a = <<>> THEN <<>> ELSE NodeAt(n, Parent(a)).forks[a[Len(a)]].prefix

\* the paths a callback can be called with
RECURSIVE WalkablePaths(_, _)
WalkablePaths(n, path) ==
    {path} \cup UNION {WalkablePaths(n.forks[k].node, path \o n.forks[k].prefix) :
                          k \in DOMAIN n.forks}

\* the context handed to the frame a is done: the caller's context was
\* cancelled, or a group above a has recorded an error
CtxDone(a) ==
    \/ walking.cancelled
    \/ \E i \in 0..(Len(a) - 1) : walking.gerr[SubSeq(a, 1, i)] # <<>>

\* the calls of one frame up to the first that returns an error
RECURSIVE callsUntilError(_, _)
callsUntilError(cs, failAt) ==
    IF cs = <<>> THEN <<>>
    ELSE IF Head(cs).path \in failAt THEN <<Head(cs)>>
    ELSE <<Head(cs)>> \o callsUntilError(Tail(cs), failAt)

\* what the callbacks of one frame return
callsError(made, failAt) ==
    IF made # <<>> /\ made[Len(made)].path \in failAt
    THEN <<made[Len(made)].path>>
    ELSE <<>>

\* eachNodeAsync: one call, with the path and the node
eachNodeCalls(path) == <<[path |-> path, isDir |-> FALSE]>>

\* eachPathAsync: a call at every separator of the prefix, and one at the
\* end of the prefix for a node with the Value flag
eachPathCalls(path, prefix, n) ==
    walkPrefix(path, prefix, 0) \o walkValue(n, path \o prefix).calls

WalkSteps(a) == walking.phase = "running" /\ a \in DOMAIN walking.pc

WalkKeeps ==
    UNCHANGED <<root, store, stored, opsSeen, distinct, last, before, nops, crashed,
                codec, saving, manifest, each, iterating>>

CanStepWalk == nops < MaxOpsWalk /\ ~crashed /\ walking.phase # "running"

AddWalk ==
    \E p \in WalkPaths :
        CanStepWalk /\ DoAdd(p, Repeat(1, 32), NoLoader)

\* EachNodeAsync or EachPathAsync from the empty root path, with a callback
\* that returns an error at the paths of failAt
WalkBegin ==
    \E kind \in WalkKinds, failAt \in SUBSET WalkablePaths(root, <<>>) :
        /\ CanStepWalk
        /\ walking' = [WalkIdle EXCEPT !.phase = "running", !.kind = kind,
                                       !.failAt = failAt,
                                       !.pc = MapSet(NoForks, <<>>, "spawned"),
                                       !.gerr = MapSet(NoForks, <<>>, <<>>)]
        /\ WalkKeeps

\* the context of the caller is cancelled while the walk is under way, after
\* LookupNode has found the node to start from and its frame was entered
WalkCancel ==
    /\ walking.phase = "running" /\ ~walking.cancelled
    /\ walking.pc[<<>>] # "spawned"
    /\ walking' = [walking EXCEPT !.cancelled = TRUE]
    /\ WalkKeeps

\* the goroutine of the frame a starts to run: if n.forks == nil
WalkEnter ==
    \E a \in DOMAIN walking.pc :
        /\ WalkSteps(a)
        /\ walking.pc[a] = "spawned"
        /\ walking' = [walking EXCEPT
               !.pc = MapSet(walking.pc, a, "entered"),
               !.late = IF CtxDone(a) THEN walking.late \cup {a} ELSE walking.late]
        /\ WalkKeeps

\* eg.Go for each fork of the node of the frame a, which then waits
Started(pc, a, keys) ==
    [x \in (DOMAIN pc) \cup {a \o <<k>> : k \in keys} |->
        IF x = a THEN "wait"
        ELSE IF x \in DOMAIN pc THEN pc[x] ELSE "spawned"]

\* the callbacks of the frame a; on an error the frame returns it, else it
\* makes its group and starts one goroutine for each fork
walkCalled(a, n, made, e) ==
    /\ walking' = [walking EXCEPT
           !.calls = walking.calls \o [i \in 1..Len(made) |->
                         [path |-> made[i].path, isDir |-> made[i].isDir, at |-> a]],
           !.failed = IF e # <<>> THEN Append(walking.failed, e) ELSE walking.failed,
           !.ret = IF e # <<>> THEN MapSet(walking.ret, a, e) ELSE walking.ret,
           !.gerr = MapSet(walking.gerr, a, <<>>),
           !.pc = IF e # <<>> THEN MapSet(walking.pc, a, "return")
                  ELSE Started(walking.pc, a,
                               IF walking.kind = "path" /\ ~isEdgeType(n)
                               THEN {} ELSE DOMAIN n.forks)]
    /\ WalkKeeps

walkCall(a, n, cs) ==
    walkCalled(a, n, callsUntilError(cs, walking.failAt),
               callsError(callsUntilError(cs, walking.failAt), walking.failAt))

WalkCall ==
    \E a \in DOMAIN walking.pc :
        /\ WalkSteps(a)
        /\ walking.pc[a] = "entered"
        /\ walkCall(a, NodeAt(root, a),
                    IF walking.kind = "node" THEN eachNodeCalls(PathAt(root, a))
                    ELSE eachPathCalls(PathAt(root, Parent(a)), PrefixAt(root, a),
                                       NodeAt(root, a)))

\* eg.Wait(): every goroutine of the group has returned
WalkWait ==
    \E a \in DOMAIN walking.pc :
        /\ WalkSteps(a)
        /\ walking.pc[a] = "wait"
        /\ \A b \in DOMAIN walking.pc : (b # <<>> /\ Parent(b) = a) => walking.pc[b] = "done"
        /\ walking' = [walking EXCEPT !.pc = MapSet(walking.pc, a, "return"),
                                      !.ret = MapSet(walking.ret, a, walking.gerr[a])]
        /\ WalkKeeps

\* the goroutine of the frame a returns to its group, which keeps the first
\* error it is given
WalkReturn ==
    \E a \in DOMAIN walking.pc :
        /\ WalkSteps(a)
        /\ a # <<>>
        /\ walking.pc[a] = "return"
        /\ walking' = [walking EXCEPT
               !.pc = MapSet(walking.pc, a, "done"),
               !.gerr = IF walking.ret[a] # <<>> /\ walking.gerr[Parent(a)] = <<>>
                        THEN MapSet(walking.gerr, Parent(a), walking.ret[a])
                        ELSE walking.gerr]
        /\ WalkKeeps

\* the walk returns what the frame of the root returns
WalkEnd ==
    /\ WalkSteps(<<>>)
    /\ walking.pc[<<>>] = "return"
    /\ walking' = [walking EXCEPT !.phase = "returned", !.err = walking.ret[<<>>],
                                  !.pc = MapSet(walking.pc, <<>>, "done")]
    /\ last' = [op |-> IF walking.kind = "node" THEN "EachNodeAsync" ELSE "EachPathAsync",
                path |-> <<>>, entry |-> <<>>,
                err |-> IF walking.ret[<<>>] = <<>> THEN "ok" ELSE "callback error",
                has |-> FALSE]
    /\ before' = last
    /\ opsSeen' = opsSeen \cup {"Walk"}
    /\ nops' = nops + 1
    /\ UNCHANGED <<root, store, stored, distinct, crashed, codec, saving, manifest, each, iterating>>

NextWalk ==
    \/ AddWalk \/ WalkBegin \/ WalkCancel \/ WalkEnter \/ WalkCall \/ WalkWait
    \/ WalkReturn \/ WalkEnd

SpecWalk == Init /\ [][NextWalk]_vars

(* The loop of bitsForBytes.iter, one turn at a time, with its counter of  *)
(* 8 bits and a callback that may return an error at one key.              *)

MaxOpsIter == 2

\* bitmaps: no key, the first and the last key, some keys, every key
IterBitmaps ==
    {bbOfKeys(keys) : keys \in {{}, {0}, {255}, {0, 255}, {97, 98}, {7, 8, 254}}}
        \cup {[j \in 1..32 |-> 255]}

\* the key at which the callback returns an error; -1 for a callback that
\* never does
IterFailures == {-1, 0, 98, 255}

CallbackError == "callback error"

\* if i == 255 { return nil }
iterStopsBefore(i) == i = 254

iterStops(i) == i = 255

\* i++ on a uint8
iterNext(i) == (i + 1) % 256

IterKeeps ==
    UNCHANGED <<root, store, stored, opsSeen, distinct, crashed, codec, saving,
                manifest, walking, each>>

\* bb.iter(f) is called
IterBegin ==
    \E bits \in IterBitmaps, failOn \in IterFailures :
        /\ nops < MaxOpsIter /\ iterating.pc # "loop"
        /\ iterating' = [IterIdle EXCEPT !.pc = "loop", !.bits = bits,
                                         !.failOn = failOn]
        /\ UNCHANGED <<last, before, nops>>
        /\ IterKeeps

\* iter returns
iterReturns(called, err) ==
    /\ iterating' = [iterating EXCEPT !.pc = "returned", !.err = err,
                                      !.examined = @ + 1,
                                      !.calls = IF called THEN Append(@, iterating.i) ELSE @]
    /\ last' = [op |-> "iter", path |-> <<>>, entry |-> <<>>, err |-> err, has |-> FALSE]
    /\ before' = last
    /\ nops' = nops + 1

\* one turn of the loop: the callback for a set bit, the return at an error
\* of the callback or at 255, and the increment
iterTurn(i, isSet) ==
    /\ IF isSet /\ i = iterating.failOn THEN iterReturns(TRUE, CallbackError)
       ELSE IF iterStops(i) THEN iterReturns(isSet, "ok")
       ELSE /\ iterating' = [iterating EXCEPT
                   !.i = iterNext(i), !.examined = @ + 1,
                   !.calls = IF isSet THEN Append(@, i) ELSE @]
            /\ UNCHANGED <<last, before, nops>>
    /\ IterKeeps

IterTurn ==
    /\ iterating.pc = "loop"
    /\ iterTurn(iterating.i, bbGetUint8(iterating.bits, iterating.i))

NextIter == IterBegin \/ IterTurn

SpecIter == Init /\ [][NextIter]_vars /\ WF_vars(IterTurn)

(* The flat-map manifest, as in TestEntries of package simple *)

MaxOpsSimple == 4

SimplePaths == {<<>>, <<97>>, <<98>>, <<97, PathSeparator, 98>>}

SimpleRefs == {<<1>>, <<2>>}

CanStepSimple == nops < MaxOpsSimple

\* the outcome of one call on the manifest; has tells whether the path was
\* in the map before the call
simpleDone(op, p, e, r, has) ==
    /\ manifest' = r.manifest
    /\ stored' = IF r.err # "ok" THEN stored
                 ELSE IF op = "Add" THEN MapSet(stored, p, e)
                 ELSE IF op = "Remove" THEN MapDel(stored, p)
                 ELSE stored
    /\ last' = [op |-> op, path |-> p, entry |-> e, err |-> r.err, has |-> has]
    /\ before' = last
    /\ opsSeen' = opsSeen \cup {op}
    /\ nops' = nops + 1
    /\ UNCHANGED <<root, store, distinct, crashed, codec, saving, walking, each,
                   iterating>>

SimpleAdd ==
    \E p \in SimplePaths, e \in SimpleRefs :
        /\ CanStepSimple
        /\ simpleDone("Add", p, e, ManifestAdd(manifest, p, e), p \in DOMAIN manifest.Entries)

SimpleRemove ==
    \E p \in SimplePaths :
        /\ CanStepSimple
        /\ simpleDone("Remove", p, <<>>, ManifestRemove(manifest, p),
                      p \in DOMAIN manifest.Entries)

simpleLookupDone(p, r, has) ==
    simpleDone("Lookup", p, r.entry.Ref, [manifest |-> manifest, err |-> r.err], has)

SimpleLookup ==
    \E p \in SimplePaths :
        /\ CanStepSimple
        /\ simpleLookupDone(p, ManifestLookup(manifest, p), p \in DOMAIN manifest.Entries)

NextSimple == SimpleAdd \/ SimpleRemove \/ SimpleLookup

SpecSimple == Init /\ [][NextSimple]_vars

(* EachEntryAsync of the flat-map manifest with its goroutines            *)
(* interleaved.  mu is the sync.RWMutex of the manifest; a callback may call *)
(* Lookup or Length on the manifest it is walking.                           *)

MaxOpsEach == 3

\* what the callback does with the manifest: nothing, or one of its reads
EachReads == {"none", "Lookup", "Length"}

EachKeeps ==
    UNCHANGED <<root, store, stored, opsSeen, distinct, last, before, nops, crashed,
                codec, saving, manifest, walking, iterating>>

CanStepEach == nops < MaxOpsEach /\ each.phase # "running"

AddEach ==
    \E p \in SimplePaths, e \in SimpleRefs :
        /\ CanStepEach
        /\ simpleDone("Add", p, e, ManifestAdd(manifest, p, e), p \in DOMAIN manifest.Entries)

\* m.mu.Lock(), which waits for the readers, and one eg.Go for each entry
EachBegin ==
    \E reads \in EachReads, failAt \in SUBSET DOMAIN manifest.Entries :
        /\ CanStepEach
        /\ ~each.mu.writer /\ each.mu.readers = 0
        /\ each' = [EachIdle EXCEPT
               !.phase = "running", !.reads = reads, !.failAt = failAt,
               !.caller = each.caller, !.read = each.read,
               !.mu = [writer |-> TRUE, readers |-> 0],
               !.pc = [p \in DOMAIN manifest.Entries |-> "spawned"]]
        /\ EachKeeps

\* the goroutine of one entry returns what the callback returns; the group
\* keeps the first error
eachReturned(p, pc) ==
    [each EXCEPT !.pc = pc,
                 !.gerr = IF p \in each.failAt /\ each.gerr = "ok"
                          THEN "callback error" ELSE each.gerr]

\* walkFn(k, entry) is called; a callback that reads the manifest goes on
\* to m.mu.RLock()
EachCall ==
    \E p \in DOMAIN each.pc :
        /\ each.phase = "running" /\ each.pc[p] = "spawned"
        /\ each' = [(IF each.reads = "none"
                     THEN eachReturned(p, MapSet(each.pc, p, "done"))
                     ELSE [each EXCEPT !.pc = MapSet(each.pc, p, "rlock")])
                       EXCEPT !.calls = Append(each.calls, p)]
        /\ EachKeeps

\* another goroutine calls Lookup or Length on the manifest
CallerReads ==
    /\ each.read < MaxOpsEach
    /\ each.caller = "idle"
    /\ each' = [each EXCEPT !.caller = "rlock"]
    /\ EachKeeps

\* who waits at m.mu.RLock(): the callbacks that read, by the path of their
\* entry, and the other goroutine, by the empty path, which is no entry
Caller == <<>>

AtRLock == {p \in DOMAIN each.pc : each.pc[p] = "rlock"}
               \cup (IF each.caller = "rlock" THEN {Caller} ELSE {})

Reading == {p \in DOMAIN each.pc : each.pc[p] = "reading"}
               \cup (IF each.caller = "reading" THEN {Caller} ELSE {})

\* m.mu.RLock() of Lookup or Length is given when no writer holds the lock
EachRLock ==
    \E p \in AtRLock :
        /\ ~each.mu.writer
        /\ each' = [each EXCEPT
               !.pc = IF p = Caller THEN each.pc ELSE MapSet(each.pc, p, "reading"),
               !.caller = IF p = Caller THEN "reading" ELSE each.caller,
               !.mu.readers = @ + 1]
        /\ EachKeeps

\* the read and its deferred m.mu.RUnlock(); a callback then returns
EachRUnlock ==
    \E p \in Reading :
        /\ each' = [eachReturned(p, IF p = Caller THEN each.pc
                                    ELSE MapSet(each.pc, p, "done"))
                       EXCEPT !.caller = IF p = Caller THEN "idle" ELSE each.caller,
                              !.read = @ + 1,
                              !.mu.readers = @ - 1]
        /\ EachKeeps

\* eg.Wait() returns and the deferred m.mu.Unlock() runs
EachEnd ==
    /\ each.phase = "running"
    /\ \A p \in DOMAIN each.pc : each.pc[p] = "done"
    /\ each' = [each EXCEPT !.phase = "returned", !.err = each.gerr,
                            !.mu.writer = FALSE]
    /\ last' = [op |-> "EachEntryAsync", path |-> <<>>, entry |-> <<>>,
                err |-> each.gerr, has |-> FALSE]
    /\ before' = last
    /\ opsSeen' = opsSeen \cup {"EachEntryAsync"}
    /\ nops' = nops + 1
    /\ UNCHANGED <<root, store, stored, distinct, crashed, codec, saving, manifest,
                   walking, iterating>>

NextEach ==
    \/ AddEach \/ EachBegin \/ EachCall \/ CallerReads \/ EachRLock \/ EachRUnlock
    \/ EachEnd

SpecEach == Init /\ [][NextEach]_vars

(* The codec alone, as in TestMarshal and TestUnmarshal: a node is marshalled, *)
(* the bytes possibly damaged in the version hash, and unmarshalled into an *)
(* empty node.                                                              *)

RefSizes == {0, 32, 256}

\* a persisted child as its parent holds it: reference set, forks dropped
CodecChild(t, R, b) == [NewNodeRef(Repeat(b, R)) EXCEPT !.nodeType = t]

CodecForks(R) ==
    {[prefix |-> <<97>>, node |-> CodecChild(nodeTypeValue, R, 3)],
     [prefix |-> Repeat(98, 30),
      node |-> CodecChild(nodeTypeValue + nodeTypeEdge, R, 4)],
     [prefix |-> <<255, PathSeparator>>,
      node |-> CodecChild(nodeTypeEdge + nodeTypeWithPathSeparator, R, 5)],
     [prefix |-> Repeat(99, 31), node |-> CodecChild(nodeTypeValue, R, 6)]}

\* a child that was added and never saved: no reference, forks in memory
UnsavedFork(R) ==
    [prefix |-> <<100>>,
     node |-> [New EXCEPT !.nodeType = nodeTypeValue, !.entry = Repeat(7, R)]]

\* the fork tables tried: none, one fork, all forks with and without the
\* one whose prefix is longer than the 30 bytes of the fork block, and one
\* with a child that has no reference
CodecForkSets(R) ==
    {{}, {f \in CodecForks(R) : Len(f.prefix) = 1},
     {f \in CodecForks(R) : Len(f.prefix) = 1} \cup {UnsavedFork(R)},
     {f \in CodecForks(R) : Len(f.prefix) <= 30},
     {f \in CodecForks(R) : Len(f.prefix) > 30},
     CodecForks(R)}

ForkTable(fs) == [k \in {f.prefix[1] : f \in fs} |-> CHOOSE f \in fs : f.prefix[1] = k]

\* entries are empty or of the manifest's width; children carry references
\* of that width
CodecInputsOf(R) ==
    {[New EXCEPT !.refBytesSize = R, !.entry = e, !.obfuscationKey = k,
                 !.forks = ForkTable(fs)] :
        e \in {<<>>, Repeat(1, R)}, k \in {<<>>} \cup ObfuscationKeys,
        fs \in CodecForkSets(R)}

CodecInputs == UNION {CodecInputsOf(R) : R \in RefSizes}

InitCodec ==
    /\ root = New
    /\ store = NoForks
    /\ stored = NoForks
    /\ opsSeen = {}
    /\ distinct = TRUE
    /\ last = NoOp
    /\ before = NoOp
    /\ nops = 0
    /\ crashed = FALSE
    /\ saving = SaveIdle
    /\ manifest = NewManifest
    /\ walking = WalkIdle
    /\ each = EachIdle
    /\ iterating = IterIdle
    /\ codec \in {[CodecIdle EXCEPT !.pc = "new", !.node = n] : n \in CodecInputs}

marshalled(m) ==
    codec' = [codec EXCEPT !.pc = "marshalled", !.node = m.node,
                           !.bytes = m.bytes, !.merr = m.err,
                           !.generated = (Len(codec.node.obfuscationKey) = 0)]

\* bytes, err := n.MarshalBinary()
MarshalStep ==
    /\ codec.pc = "new"
    /\ \E key \in ObfuscationKeys : marshalled(MarshalBinary(codec.node, key))
    /\ UNCHANGED <<root, store, stored, opsSeen, distinct, last, before, nops, crashed, saving,
                   manifest, walking, each, iterating>>

\* what obfuscationKeyFn would yield at a later call
LaterKeys == {[i \in 1..32 |-> (11 * i + 3) % 256]}

remarshalled(m) ==
    codec' = [codec EXCEPT !.pc = "remarshalled", !.node = m.node,
                           !.bytes = m.bytes, !.merr = m.err]

\* bytes, err = n.MarshalBinary() once more on the same node
RemarshalStep ==
    /\ codec.pc = "marshalled" /\ codec.merr = "ok"
    /\ \E key \in LaterKeys : remarshalled(MarshalBinary(codec.node, key))
    /\ UNCHANGED <<root, store, stored, opsSeen, distinct, last, before, nops, crashed, saving,
                   manifest, walking, each, iterating>>

\* one bit of the byte at 0-based offset i
FlipBit(bytes, i, bit) ==
    [bytes EXCEPT ![i + 1] = IF (@ \div (2 ^ bit)) % 2 = 1 THEN @ - 2 ^ bit ELSE @ + 2 ^ bit]

\* one bit of the version hash is altered in the marshalled bytes
FlipStep ==
    /\ codec.pc = "marshalled" /\ codec.merr = "ok"
    /\ \E i \in nodeObfuscationKeySize..(nodeObfuscationKeySize + versionHashSize - 1),
          bit \in 0..7 :
           codec' = [codec EXCEPT !.pc = "flipped", !.flipped = TRUE,
                                  !.bytes = FlipBit(codec.bytes, i, bit)]
    /\ UNCHANGED <<root, store, stored, opsSeen, distinct, last, before, nops, crashed, saving,
                   manifest, walking, each, iterating>>

\* where the marshalled bytes are cut: inside the header, after it, inside
\* the entry, after it, after the bitmap of the forks, and inside the last
\* fork block
CutLengths(n, bytes) ==
    {0, nodeHeaderSize - 1, nodeHeaderSize, nodeHeaderSize + n.refBytesSize - 1,
     nodeHeaderSize + n.refBytesSize, nodeHeaderSize + n.refBytesSize + 32,
     Len(bytes) - 1} \cap (0..(Len(bytes) - 1))

\* only the first bytes of the marshalled node are handed on
TruncateStep ==
    /\ codec.pc = "marshalled" /\ codec.merr = "ok"
    /\ \E cut \in CutLengths(codec.node, codec.bytes) :
           codec' = [codec EXCEPT !.pc = "truncated", !.truncated = TRUE,
                                  !.bytes = Slice(codec.bytes, 0, cut)]
    /\ UNCHANGED <<root, store, stored, opsSeen, distinct, last, before, nops, crashed, saving,
                   manifest, walking, each, iterating>>

unmarshalled(u) ==
    codec' = [codec EXCEPT !.pc = "done", !.out = u.node, !.uerr = u.err]

\* n := &Node{}; err := n.UnmarshalBinary(bytes)
UnmarshalStep ==
    /\ codec.pc \in {"marshalled", "flipped", "truncated"} /\ codec.merr = "ok"
    /\ unmarshalled(UnmarshalBinary([New EXCEPT !.forksNil = TRUE], codec.bytes))
    /\ UNCHANGED <<root, store, stored, opsSeen, distinct, last, before, nops, crashed, saving,
                   manifest, walking, each, iterating>>

NextCodec == MarshalStep \/ RemarshalStep \/ FlipStep \/ TruncateStep \/ UnmarshalStep

SpecCodec == InitCodec /\ [][NextCodec]_vars

---------------------------------------------------------------------------
(* Properties *)

LookupNow(p) == Lookup(root, p, NoLoader)

OnlyAdds == opsSeen = {"Add"}

NoRemoveYet == "Remove" \notin opsSeen

\* C1: after each Add of a sequence of Adds of distinct non-empty paths with
\* entries of one length on a fresh trie, the Add has succeeded and every
\* path added so far looks up to its own entry.
C1_AddLookup ==
    (OnlyAdds /\ distinct) =>
        /\ last.err = "ok"
        /\ \A p \in DOMAIN stored :
               LookupNow(p).err = "ok" /\ LookupNow(p).entry = stored[p]

\* three distinct paths added, one a proper prefix of another, one longer
\* than a fork prefix can be
C1_Witness ==
    /\ OnlyAdds /\ distinct
    /\ {<<97>>, <<97, 98>>, Repeat(97, 33)} \subseteq DOMAIN stored
    /\ stored[<<97>>] # stored[<<97, 98>>]

\* C2: after a successful Remove(p) of an added path p, Lookup(p) is
\* NotFound and every other added path looks up as before the Remove.
C2_RemoveKeepsOthers ==
    [][(/\ nops' = nops + 1
        /\ last'.op = "Remove" /\ last'.err = "ok"
        /\ last'.path \in DOMAIN stored)
       => /\ Lookup(root', last'.path, NoLoader).err = "ErrNotFound"
          /\ \A q \in DOMAIN stored \ {last'.path} :
                 /\ Lookup(root', q, NoLoader).err = Lookup(root, q, NoLoader).err
                 /\ Lookup(root', q, NoLoader).entry = Lookup(root, q, NoLoader).entry]_vars

LookupStored(p) == Lookup(root, p, LoadSaver(store))

\* every child reference in a chunk of the store is the address of a chunk
ChunkResolvable(u) ==
    /\ u.err = "ok"
    /\ \A k \in DOMAIN u.node.forks :
           addrOf(u.node.forks[k].node.ref) \in DOMAIN store

RefsResolvable ==
    \A a \in DOMAIN store : ChunkResolvable(UnmarshalBinary(NewNodeRef(a), store[a]))

\* C3: after Saves and Adds in any order ending with a successful Save,
\* Lookup through the loader gives every added path the entry last added for
\* it, and every child reference in a persisted node can be loaded.
C3_SaveAddLookup ==
    (opsSeen \subseteq {"Add", "Save"} /\ last.op = "Save" /\ last.err = "ok") =>
        /\ \A p \in DOMAIN stored :
               LookupStored(p).err = "ok" /\ LookupStored(p).entry = stored[p]
        /\ RefsResolvable

\* the references of the nodes from n down along path, as far as forks lead
RECURSIVE PathRefsNil(_, _)
PathRefsNil(n, path) ==
    /\ n.refNil
    /\ \/ Len(path) = 0
       \/ n.forksNil
       \/ path[1] \notin DOMAIN n.forks
       \/ ~IsPrefixOf(n.forks[path[1]].prefix, path)
       \/ PathRefsNil(n.forks[path[1]].node,
                      Slice(path, Len(n.forks[path[1]].prefix), Len(path)))

\* C4: after a successful Add or Remove the reference of every node from
\* the root to the modified node is empty.
C4_RefsCleared ==
    (last.op \in {"Add", "Remove"} /\ last.err = "ok") => PathRefsNil(root, last.path)

\* C5: a Save that follows a successful Save returns at once: it succeeds
\* and leaves every node, every reference and the store as they were.
C5_SaveIdempotent ==
    [][(/\ nops' = nops + 1
        /\ last.op = "Save" /\ last.err = "ok"
        /\ last'.op = "Save")
       => (last'.err = "ok" /\ root' = root /\ store' = store)]_vars

\* two Saves in a row of a tree that holds two paths
C5_Witness ==
    /\ last.op = "Save" /\ last.err = "ok"
    /\ before.op = "Save" /\ before.err = "ok"
    /\ Cardinality(DOMAIN stored) = 2
    /\ ~root.refNil

\* the fork keys and fork prefixes at every node
RECURSIVE Shape(_)
Shape(n) ==
    [k \in DOMAIN n.forks |->
        [prefix |-> n.forks[k].prefix, node |-> Shape(n.forks[k].node)]]

\* C6: an Add of a path that is already in the trie makes Lookup return the
\* new entry and leaves the fork keys and prefixes of every node as they were.
C6_Overwrite ==
    [][(/\ nops' = nops + 1
        /\ NoRemoveYet
        /\ last'.op = "Add" /\ last'.path \in DOMAIN stored)
       => /\ last'.err = "ok"
          /\ Lookup(root', last'.path, NoLoader).err = "ok"
          /\ Lookup(root', last'.path, NoLoader).entry = last'.entry
          /\ Shape(root') = Shape(root)]_vars

\* a path added twice in a row, with another entry the second time, in a
\* trie that holds other paths
C6_Witness ==
    /\ last.op = "Add" /\ before.op = "Add"
    /\ last.path = before.path /\ last.entry # before.entry
    /\ last.err = "ok" /\ before.err = "ok"
    /\ NoRemoveYet
    /\ Cardinality(DOMAIN stored) >= 2

\* C7: Lookup of a non-empty path that is not stored is NotFound, and a
\* Lookup that succeeds is of a stored path.
C7_AbsentNotFound ==
    (last.op = "Lookup" /\ NoRemoveYet) =>
        /\ last.path \notin DOMAIN stored => last.err = "ErrNotFound"
        /\ last.err = "ok" => last.path \in DOMAIN stored

Queries == Paths \cup {<<99>>, <<97, 98, 97>>, Repeat(97, 32), Repeat(97, 34)}

HasPrefixNow(q) == HasPrefix(root, q, NoLoader)

\* C8: after Adds on a fresh trie, HasPrefix(q) for a non-empty q is true
\* exactly when an added path starts with q, and never an error.
C8_HasPrefix ==
    (opsSeen \subseteq {"Add", "HasPrefix"}) =>
        \A q \in Queries :
            /\ HasPrefixNow(q).err = "ok"
            /\ HasPrefixNow(q).has = (\E p \in DOMAIN stored : IsPrefixOf(q, p))

\* HasPrefix has answered true for a query that ends inside a fork prefix
\* and is itself no added path
C8_Witness ==
    /\ opsSeen = {"Add", "HasPrefix"}
    /\ last.op = "HasPrefix" /\ last.has /\ last.err = "ok"
    /\ last.path \notin DOMAIN stored
    /\ \E p \in DOMAIN stored : IsPrefixOf(last.path, p)
    /\ \E q \in Queries : ~HasPrefixNow(q).has

\* the precondition of the round trip: fork prefixes of 1..30 bytes, child
\* references of refBytesSize bytes
RoundTripInput(n) ==
    \A k \in DOMAIN n.forks :
        /\ Len(n.forks[k].prefix) \in 1..nodePrefixMaxSize
        /\ ~n.forks[k].node.refNil
        /\ Len(n.forks[k].node.ref) = n.refBytesSize

SameForks(n, m) ==
    /\ DOMAIN m.forks = DOMAIN n.forks
    /\ \A k \in DOMAIN n.forks :
           /\ m.forks[k].prefix = n.forks[k].prefix
           /\ m.forks[k].node.ref = n.forks[k].node.ref
           /\ m.forks[k].node.nodeType = n.forks[k].node.nodeType

\* C9: UnmarshalBinary of MarshalBinary of a node with fork prefixes of
\* 1..30 bytes and child references of refBytesSize bytes gives a node with
\* the same entry, fork keys, fork prefixes, child references and child types.
C9_RoundTrip ==
    (codec.pc = "done" /\ ~codec.flipped /\ ~codec.truncated /\ RoundTripInput(codec.node)) =>
        /\ codec.uerr = "ok"
        /\ codec.out.entry = codec.node.entry
        /\ SameForks(codec.node, codec.out)

\* C10: UnmarshalBinary of an input of 64 bytes or more whose version hash
\* differs from the fixed one, be it in one bit, fails with ErrInvalid.
C10_VersionGuard ==
    (codec.pc = "done" /\ codec.flipped /\ Len(codec.bytes) >= nodeHeaderSize) =>
        codec.uerr = "ErrInvalid"

\* the errors of a load: no loader, the loader's failure, a chunk that
\* does not unmarshal
LoadErrors ==
    {"ErrNoLoader", "ErrNotFound", "ErrTooShort", "invalid version hash",
     "invalid prefix length", "not enough bytes for node fork"}

SameAnswer(a, b) == a.err = b.err /\ a.entry = b.entry

\* the fork table, entry, type flags and reference of a node and of every
\* node below it
RECURSIVE Content(_)
Content(n) ==
    [nodeType |-> n.nodeType, refNil |-> n.refNil, ref |-> n.ref, entry |-> n.entry,
     forksNil |-> n.forksNil,
     forks |-> [k \in DOMAIN n.forks |->
                   [prefix |-> n.forks[k].prefix, node |-> Content(n.forks[k].node)]]]

\* C11: an Add that returns the error of a load applies no mutation: every
\* node keeps its fork table, entry, type flags and reference, and every
\* Lookup answers as before.
C11_AddErrorRollsBack ==
    [][(/\ nops' = nops + 1
        /\ last'.op \in {"Add", "Add(nil)"}
        /\ last'.err \in LoadErrors)
       => /\ Content(root') = Content(root)
          /\ \A q \in StubPaths :
                 SameAnswer(Lookup(root', q, LoadSaver(store)),
                            Lookup(root, q, LoadSaver(store)))]_vars

\* a node, or one below it, that has neither a reference nor a fork table
RECURSIVE Broken(_)
Broken(n) ==
    \/ n.refNil /\ n.forksNil
    \/ \E k \in DOMAIN n.forks : Broken(n.forks[k].node)

\* C12: when Save has returned an error, no node has lost its fork table
\* without having obtained a reference: every path added before still looks
\* up to its entry, and a later Save and a later Add go through.
C12_SaveErrorLeavesUsableTree ==
    (saving.phase = "returned" /\ last.op = "Save" /\ last.err # "ok") =>
        /\ ~Broken(root)
        /\ \A p \in DOMAIN stored :
               /\ Lookup(root, p, LoadSaver(store)).err = "ok"
               /\ Lookup(root, p, LoadSaver(store)).entry = stored[p]
        /\ \A key \in ObfuscationKeys :
               Save(root, LoadSaver(store), key, FALSE).err = "ok"
        /\ \A p \in SavePaths :
               Add(root, p, Repeat(2, 32), LoadSaver(store)).err = "ok"

\* C13: when marshalling or saving a node has failed, Save returns an error,
\* whatever the interleaving of the goroutines, and no node above a failed
\* node is handed to the Saver (and so none is given a reference).
C13_FirstErrorStopsAncestors ==
    /\ (saving.phase = "returned" /\ saving.failed # {}) => saving.err # "ok"
    /\ \A f \in saving.failed, h \in saving.handed : ~(IsPrefixOf(h, f) /\ h # f)

\* a reference stub: reference set, fork table absent
IsStub(n) == ~n.refNil /\ n.forksNil

\* the descent along path, fork by fork as far as whole prefixes match,
\* arrives at a reference stub
RECURSIVE ReachesStub(_, _)
ReachesStub(n, path) ==
    \/ IsStub(n)
    \/ /\ path # <<>>
       /\ ~n.forksNil
       /\ path[1] \in DOMAIN n.forks
       /\ IsPrefixOf(n.forks[path[1]].prefix, path)
       /\ ReachesStub(n.forks[path[1]].node,
                      Slice(path, Len(n.forks[path[1]].prefix), Len(path)))

\* C14: an operation without a loader that reaches a reference stub (for
\* Remove, HasPrefix and the walk: the root is one) fails with NoLoader and
\* leaves the nodes of the tree as they were.  An Add refused for the width
\* of its entry is left aside.
C14_StubNeedsLoader ==
    [][(/\ nops' = nops + 1
        /\ last'.err # "EntrySizeMismatch"
        /\ \/ /\ last'.op \in {"Lookup(nil)", "Add(nil)"}
              /\ ReachesStub(root, last'.path)
           \/ /\ last'.op \in {"Remove(nil)", "HasPrefix(nil)", "Walk(nil)"}
              /\ IsStub(root))
       => /\ last'.err = "ErrNoLoader"
          /\ Content(root') = Content(root)]_vars

\* the entries that the paths of the tree look up to, with a loader
EntryOf(p) == Lookup(root, p, LoadSaver(store))

\* C17: the non-empty entries of the trie all have one length: no Add of an
\* entry of another length has gone through.
C17_UniformEntryWidth ==
    \A p, q \in StubPaths :
        (/\ EntryOf(p).err = "ok"
         /\ EntryOf(q).err = "ok"
         /\ EntryOf(p).entry # <<>>
         /\ EntryOf(q).entry # <<>>)
        => Len(EntryOf(p).entry) = Len(EntryOf(q).entry)

\* C15: Remove with a path of length zero returns ErrEmptyPath and changes
\* nothing: the tree is what it was, a reference stub is not loaded, and the
\* store is untouched.
C15_RemoveEmptyPath ==
    [][(/\ nops' = nops + 1
        /\ last'.op = "Remove"
        /\ last'.path = <<>>)
       => /\ last'.err = "ErrEmptyPath"
          /\ root' = root
          /\ store' = store
          /\ stored' = stored]_vars

\* Remove of the empty path has answered on a saved tree, whose root is a stub
C15_Witness ==
    /\ last.op = "Remove"
    /\ last.path = <<>>
    /\ last.err = "ErrEmptyPath"
    /\ IsStub(root)
    /\ DOMAIN stored # {}

\* C16: Remove of a non-empty path that is not stored returns ErrNotFound and
\* leaves the tree as it was.
C16_RemoveAbsentNotFound ==
    [][(/\ nops' = nops + 1
        /\ last'.op = "Remove"
        /\ last'.path # <<>>
        /\ last'.path \notin DOMAIN stored)
       => /\ last'.err = "ErrNotFound"
          /\ Content(root') = Content(root)]_vars

\* a fork of n whose child has no reference
HasUnsavedFork(n) == \E k \in DOMAIN n.forks : n.forks[k].node.refNil

\* C18: MarshalBinary of a node with a fork whose child has no reference
\* fails with ErrForkInvalid and yields no bytes.
C18_UnsavedForkInvalid ==
    (codec.pc = "marshalled" /\ HasUnsavedFork(codec.node))
        => (codec.merr = "ErrForkInvalid" /\ codec.bytes = <<>>)

\* every Add so far has stored a new path
BuiltByAdds == OnlyAdds /\ distinct /\ Cardinality(DOMAIN stored) = nops

\* the node that path leads to has the Value flag
ReachesValue(path) ==
    /\ LookupNode(root, path, NoLoader).err = "ok"
    /\ isValueType(LookupNode(root, path, NoLoader).found)

\* what one walk reports
WalkCallsOk(w) ==
    /\ w.err = "ok"
    /\ \A i, j \in 1..Len(w.calls) : w.calls[i].path = w.calls[j].path => i = j
    /\ \A i \in 1..Len(w.calls) : w.calls[i].isDir = ~ReachesValue(w.calls[i].path)

\* C19: in a walk over a trie built by Adds no path is passed to the callback
\* twice, and a path is reported as a file exactly when the node it leads to
\* has the Value flag.
C19_WalkReportsOnce ==
    BuiltByAdds => \A desc \in BOOLEAN : WalkCallsOk(Walk(root, NoLoader, desc))

\* the callbacks of a node walk are the added paths, one each
WalkNodeCallsOk(w) ==
    /\ w.err = "ok"
    /\ Len(w.calls) = Cardinality(DOMAIN stored)
    /\ {w.calls[i] : i \in 1..Len(w.calls)} = DOMAIN stored

\* C20: a node walk from the root over a trie built by Adds of distinct
\* non-empty paths calls back exactly once for each added path and for no
\* other path.
C20_WalkNodeCallsAdded ==
    BuiltByAdds => \A desc \in BOOLEAN : WalkNodeCallsOk(WalkNode(root, NoLoader, desc))

\* C21: UnmarshalBinary of bytes that are a strict beginning of a marshalled
\* node does not fault: no slice expression reaches past the end of the
\* input.
C21_ShortInputNoFault ==
    (codec.pc = "done" /\ codec.truncated) => codec.uerr # "panic"

\* C22: MarshalBinary generates the obfuscation key only when the node has
\* none and puts it in clear in the first 32 bytes; a second MarshalBinary
\* of the node keeps the key and returns the same bytes.
C22_ObfuscationKeyStable ==
    [][/\ (codec.pc = "new" /\ codec'.pc = "marshalled" /\ codec'.merr = "ok")
           => /\ Len(codec'.node.obfuscationKey) = nodeObfuscationKeySize
              /\ Slice(codec'.bytes, 0, nodeObfuscationKeySize)
                     = codec'.node.obfuscationKey
              /\ Len(codec.node.obfuscationKey) > 0
                     => codec'.node.obfuscationKey = codec.node.obfuscationKey
       /\ codec'.pc = "remarshalled"
           => /\ codec'.merr = "ok"
              /\ codec'.node.obfuscationKey = codec.node.obfuscationKey
              /\ codec'.bytes = codec.bytes
              /\ Slice(codec'.bytes, 0, nodeObfuscationKeySize)
                     = codec.node.obfuscationKey]_vars

\* a node with an entry and forks, whose key was generated by the first
\* MarshalBinary, has been marshalled twice
C22_Witness ==
    /\ codec.pc = "remarshalled"
    /\ codec.generated
    /\ codec.merr = "ok"
    /\ codec.node.entry # <<>>
    /\ DOMAIN codec.node.forks # {}

\* C23: in the flat-map manifest Length is the number of paths added and not
\* removed since; an Add of a path that is there replaces its reference and
\* keeps Length; a Remove of a path that is not there returns no error and
\* changes nothing.
C23_LengthCountsPaths ==
    [][(nops' = nops + 1) =>
          /\ ManifestLength(manifest') = Cardinality(DOMAIN stored')
          /\ (last'.op = "Add" /\ last'.path # <<>> /\ last'.has)
                 => /\ last'.err = "ok"
                    /\ ManifestLength(manifest') = ManifestLength(manifest)
                    /\ ManifestLookup(manifest', last'.path).entry.Ref = last'.entry
          /\ (last'.op = "Remove" /\ last'.path # <<>> /\ ~last'.has)
                 => /\ last'.err = "ok"
                    /\ manifest' = manifest]_vars

\* a path was added again with another reference, and then a path that is
\* not in the manifest was removed, with two paths in the manifest
C23_Witness ==
    /\ before.op = "Add" /\ before.has /\ before.err = "ok"
    /\ last.op = "Remove" /\ ~last.has /\ last.path # <<>> /\ last.err = "ok"
    /\ ManifestLength(manifest) = 2

\* C24: after a successful Save, a reference stub made from the reference of
\* the root answers Lookup for every path as the tree in memory did just
\* before that Save.  Stated for trees whose stored paths fit the fork block
\* of the codec.
C24_SaveLosesNothing ==
    [][(/\ nops' = nops + 1
        /\ last'.op = "Save"
        /\ last'.err = "ok"
        /\ \A p \in DOMAIN stored : Len(p) <= nodePrefixMaxSize)
       => \A p \in PersistPaths :
              SameAnswer(Lookup(NewNodeRef(root'.ref), p, LoadSaver(store')),
                         Lookup(root, p, LoadSaver(store)))]_vars

\* C25: a node is marshalled and handed to the Saver only when the save of
\* each of its children is over and each child has a reference, whatever the
\* interleaving of the goroutines.
C25_ChildrenSavedFirst ==
    [][\A a \in saving'.handed \ saving.handed :
           \A k \in DOMAIN NodeAt(root, a).forks :
               /\ saving.pc[a \o <<k>>] = "done"
               /\ ~NodeAt(root, a).forks[k].node.refNil]_vars

\* the nodes of the tree in memory, n and all below it
RECURSIVE Nodes(_)
Nodes(n) == {n} \cup UNION {Nodes(n.forks[k].node) : k \in DOMAIN n.forks}

EdgeIffForks(n) == isEdgeType(n) <=> (DOMAIN n.forks # {})

\* C26: after every Add and Remove each node has the Edge flag exactly when
\* its fork table is not empty.
C26_EdgeIffForks == \A n \in Nodes(root) : EdgeIffForks(n)

\* the nodes of the tree in memory with the paths that reach them
RECURSIVE Located(_, _)
Located(n, path) ==
    {[path |-> path, node |-> n]}
        \cup UNION {Located(n.forks[k].node, path \o n.forks[k].prefix) :
                       k \in DOMAIN n.forks}

\* C27: a node has the Value flag exactly when an entry was stored by Add at
\* the path that reaches it (stated for runs without Remove).
C27_ValueIffStored ==
    NoRemoveYet =>
        \A x \in Located(root, <<>>) :
            isValueType(x.node) <=> (x.path \in DOMAIN stored)

PrefixesWithin(n) ==
    \A k \in DOMAIN n.forks : Len(n.forks[k].prefix) \in 1..nodePrefixMaxSize

\* C28: after Adds of paths of any length every fork prefix of the trie has
\* 1 to 30 bytes, and every added path looks up to its entry.
C28_PrefixesFitForkBlock ==
    OnlyAdds =>
        /\ \A n \in Nodes(root) : PrefixesWithin(n)
        /\ \A p \in DOMAIN stored :
               LookupNow(p).err = "ok" /\ LookupNow(p).entry = stored[p]

KeyedByFirstByte(n) ==
    \A k \in DOMAIN n.forks :
        Len(n.forks[k].prefix) > 0 /\ n.forks[k].prefix[1] = k

\* C29: after Adds and Removes, in every node each fork is kept under the
\* first byte of its prefix, which is not empty.
C29_ForkKeyIsFirstByte == \A n \in Nodes(root) : KeyedByFirstByte(n)

\* a Remove has been made and a split has left a node below the root with
\* two forks
C29_Witness ==
    /\ "Remove" \in opsSeen
    /\ \E n \in Nodes(root) \ {root} : Cardinality(DOMAIN n.forks) >= 2

\* every node below the root ends an added path or branches
Maximal(tree, paths) ==
    \A x \in Located(tree, <<>>) :
        \/ x.path = <<>>
        \/ x.path \in paths
        \/ Cardinality(DOMAIN x.node.forks) >= 2

\* a node as it was: wholly, or but for the hint on the separator in the
\* prefix that leads to it
SameNode(a, b, wholly) ==
    IF wholly THEN Content(a) = Content(b)
    ELSE Content(makeNotWithPathSeparator(a)) = Content(makeNotWithPathSeparator(b))

\* the fork k of the node x is cut at the path p: in the tree the fork has
\* the prefix that was left of p, and its node holds one fork, the rest of
\* the old prefix, with the node of the old fork as it was
ShortenedAt(tree, x, k, p, wholly) ==
    \E y \in Located(tree, <<>>) :
        /\ y.path = x.path
        /\ k \in DOMAIN y.node.forks
        /\ x.path \o y.node.forks[k].prefix = p
        /\ \E j \in DOMAIN y.node.forks[k].node.forks :
               /\ DOMAIN y.node.forks[k].node.forks = {j}
               /\ p \o y.node.forks[k].node.forks[j].prefix
                      = x.path \o x.node.forks[k].prefix
               /\ SameNode(y.node.forks[k].node.forks[j].node, x.node.forks[k].node,
                           wholly)

\* an Add has been made, Adds only so far, of paths within the prefix limit
AddsWithinLimit ==
    /\ nops' = nops + 1
    /\ opsSeen' = {"Add"}
    /\ \A p \in DOMAIN stored' : Len(p) <= nodePrefixMaxSize

\* the path just added ends inside the prefix of the fork k of x
EndsInside(x, k) ==
    /\ IsPrefixOf(x.path, last'.path)
    /\ Len(x.path) < Len(last'.path)
    /\ IsPrefixOf(last'.path, x.path \o x.node.forks[k].prefix)
    /\ last'.path # x.path \o x.node.forks[k].prefix

\* C30, as amended: after Adds only, of paths within the prefix limit, every
\* node below the root ends an added path or has at least two forks; and an
\* Add of a path that ends inside the prefix of a fork cuts the fork there
\* and hangs its node, the same but for the separator hint, under what is
\* left of the prefix.
C30_MaximalPrefixes ==
    [][AddsWithinLimit
       => /\ Maximal(root', DOMAIN stored')
          /\ \A x \in Located(root, <<>>) :
                 \A k \in DOMAIN x.node.forks :
                     EndsInside(x, k) => ShortenedAt(root', x, k, last'.path, FALSE)]_vars

\* C30, as stated: the node of the fork that was cut hangs under what is
\* left of the prefix unchanged, its type flags included.
C30_ChildUnchanged ==
    [][AddsWithinLimit
       => \A x \in Located(root, <<>>) :
              \A k \in DOMAIN x.node.forks :
                  EndsInside(x, k) => ShortenedAt(root', x, k, last'.path, TRUE)]_vars

\* a path was added to the empty trie, and then a proper prefix of it
C30_Witness ==
    /\ nops = 2
    /\ OnlyAdds
    /\ before.err = "ok" /\ last.err = "ok"
    /\ IsPrefixOf(last.path, before.path)
    /\ Len(before.path) - Len(last.path) >= 2
    /\ Len(before.path) <= nodePrefixMaxSize


\* the node under every fork of n has the hint on the separator exactly when
\* the prefix of the fork has a separator after its first byte
HintsMatchPrefixes(n) ==
    \A k \in DOMAIN n.forks :
        isWithPathSeparatorType(n.forks[k].node)
            <=> IndexRune(n.forks[k].prefix, PathSeparator) > 0

\* C31: after every successful Add each node below the root has the
\* WithPathSeparator flag exactly when the prefix of the fork that leads to
\* it has the byte '/' at a position greater than 0.
C31_HintFollowsPrefix ==
    [][(nops' = nops + 1 /\ last'.op = "Add" /\ last'.err = "ok")
       => \A n \in Nodes(root') : HintsMatchPrefixes(n)]_vars

\* every node of the tree by the path that reaches it: its type flags, entry
\* and reference, and the keys and prefixes of its forks
Flat(tree) ==
    {[path |-> x.path, nodeType |-> x.node.nodeType, entry |-> x.node.entry,
      refNil |-> x.node.refNil, ref |-> x.node.ref,
      forks |-> {<<k, x.node.forks[k].prefix>> : k \in DOMAIN x.node.forks}] :
        x \in Located(tree, <<>>)}

\* the tree is the tree old without the fork k of the node at the path at,
\* with whatever hung under that fork, and with nothing else changed
OneForkLess(tree, old, at, k, prefix) ==
    Flat(tree) =
        {IF y.path = at THEN [y EXCEPT !.forks = @ \ {<<k, prefix>>}] ELSE y :
            y \in {z \in Flat(old) : ~IsPrefixOf(at \o prefix, z.path)}}

\* C32: a successful Remove deletes one fork from one node, the fork that
\* ends the removed path, and leaves the key, prefix and child of every other
\* fork and the flags, entry and reference of every node as they were; a
\* parent left with one fork or with none is not merged or removed.
C32_RemoveDoesNotCollapse ==
    [][(nops' = nops + 1 /\ last'.op = "Remove" /\ last'.err = "ok")
       => \E x \in Located(root, <<>>) :
              \E k \in DOMAIN x.node.forks :
                  /\ x.path \o x.node.forks[k].prefix = last'.path
                  /\ OneForkLess(root', root, x.path, k, x.node.forks[k].prefix)]_vars

\* a path was removed from a node below the root, which is left with one
\* fork and no entry
C32_Witness ==
    /\ last.op = "Remove" /\ last.err = "ok"
    /\ \E x \in Located(root, <<>>) :
           /\ x.path # <<>>
           /\ IsPrefixOf(x.path, last.path) /\ x.path # last.path
           /\ Cardinality(DOMAIN x.node.forks) = 1
           /\ ~isValueType(x.node)

\* the paths of a walk are the paths of the nodes of the tree, one call for
\* each node, and no node is called back before a node above it
EveryNodeOnce(paths) ==
    /\ {paths[i] : i \in 1..Len(paths)} = WalkablePaths(root, <<>>)
    /\ \A i, j \in 1..Len(paths) : paths[i] = paths[j] => i = j
    /\ \A i, j \in 1..Len(paths) :
           (IsPrefixOf(paths[i], paths[j]) /\ paths[i] # paths[j]) => i < j

\* the parallel node walk that has returned without an error
ParallelNodeWalkOk ==
    /\ walking.err = <<>>
    /\ EveryNodeOnce([i \in 1..Len(walking.calls) |-> walking.calls[i].path])
    /\ \A i \in 1..Len(walking.calls) :
           walking.calls[i].path = PathAt(root, walking.calls[i].at)

\* the synchronous node walk of the same tree
SyncNodeWalkOk ==
    \A desc \in BOOLEAN :
        /\ WalkNode(root, NoLoader, desc).err = "ok"
        /\ EveryNodeOnce(WalkNode(root, NoLoader, desc).calls)

\* a parallel node walk with a callback that never fails has returned
NodeWalkReturned ==
    /\ walking.phase = "returned" /\ last.op = "EachNodeAsync"
    /\ walking.failAt = {}
    /\ DOMAIN stored # {}

\* C33: a node walk, synchronous or parallel, calls back once for every node
\* of the tree, with the concatenation of the fork prefixes from the root as
\* the path, and for a node before any node below it, however the goroutines
\* of the parallel walk interleave.
C33_NodeWalkEveryNodeOnce ==
    NodeWalkReturned => (ParallelNodeWalkOk /\ SyncNodeWalkOk)

\* no callback was made by a frame that was entered with its context done
NoCallAfterCancel ==
    \A i \in 1..Len(walking.calls) : walking.calls[i].at \notin walking.late

\* a walk in which a callback failed has returned the error of the callback
\* that failed first
FirstErrorReturned ==
    (walking.phase = "returned" /\ walking.failed # <<>>)
        => walking.err = Head(walking.failed)

\* C34: in the parallel walkers, once a callback has returned an error or
\* the caller has cancelled, no callback is made for a node whose frame is
\* entered after that, and the walk returns the first error.
C34_CancelStopsLaterFrames == NoCallAfterCancel /\ FirstErrorReturned

\* eachPathAsync with a callback that never fails: the set of its calls,
\* each a path and whether it is a directory; an error of a load or a fault
\* is kept as a call with that error
RECURSIVE eachPathAsync(_, _, _, _)

eachPathReported(calls) ==
    {[path |-> calls[i].path, isDir |-> calls[i].isDir, err |-> "ok"] :
        i \in 1..Len(calls)}

eachPathForks(n, nextPath, l) ==
    IF isEdgeType(n)
    THEN UNION {eachPathAsync(nextPath, n.forks[k].prefix, l, n.forks[k].node) :
                   k \in DOMAIN n.forks}
    ELSE {}

eachPathValue(n, v, nextPath, l) ==
    IF v.err # "ok" THEN {[path |-> nextPath, isDir |-> FALSE, err |-> v.err]}
    ELSE eachPathReported(v.calls) \cup eachPathForks(n, nextPath, l)

eachPathLoaded(ld, path, prefix, l) ==
    IF ld.err # "ok" THEN {[path |-> path, isDir |-> FALSE, err |-> ld.err]}
    ELSE eachPathReported(walkPrefix(path, prefix, 0))
             \cup eachPathValue(ld.node, walkValue(ld.node, path \o prefix),
                                path \o prefix, l)

eachPathAsync(path, prefix, l, n) ==
    eachPathLoaded(loadIfNil(n, l), path, prefix, l)

\* EachPathAsync from the empty root path
EachPathAsync(n, l) == eachPathAsync(<<>>, <<>>, l, n)

\* C35: a path walk that starts, with the loader, on the reference of a tree
\* that was just saved makes the same calls, path and directory mark, as the
\* path walk of the tree in memory made before the Save.
C35_WalkSurvivesSave ==
    [][(nops' = nops + 1 /\ last'.op = "Save" /\ last'.err = "ok")
       => EachPathAsync(NewNodeRef(root'.ref), LoadSaver(store'))
              = EachPathAsync(root, LoadSaver(store))]_vars

\* the keys of a bitmap
KeysOf(bits) == {k \in 0..255 : bbGetUint8(bits, k)}

\* the calls so far are the set bits below the counter, ascending
CallsAscending ==
    /\ \A x, y \in 1..Len(iterating.calls) :
           x < y => iterating.calls[x] < iterating.calls[y]
    /\ Len(iterating.calls) <= 256

\* what iter has done when it returns
IterResult ==
    IF iterating.err = "ok"
    THEN /\ iterating.examined = 256
         /\ iterating.calls = iter(iterating.bits)
         /\ {iterating.calls[x] : x \in 1..Len(iterating.calls)} = KeysOf(iterating.bits)
         /\ iterating.failOn \notin KeysOf(iterating.bits)
    ELSE /\ iterating.failOn \in KeysOf(iterating.bits)
         /\ {iterating.calls[x] : x \in 1..Len(iterating.calls)}
                = {k \in KeysOf(iterating.bits) : k <= iterating.failOn}
         /\ iterating.examined = iterating.failOn + 1

\* C36: iter comes to an end for every bitmap, having looked at each of the
\* 256 indices once with its counter of 8 bits: it calls back once for every
\* set bit, in ascending order, key 255 included, at most 256 times, and
\* stops at the first error of the callback.
C36_IterTerminates ==
    /\ [](CallsAscending /\ iterating.examined <= 256)
    /\ [](iterating.pc = "returned" => IterResult)
    /\ [][(iterating.pc = "loop" /\ iterating'.pc = "loop")
            => (iterating'.i = iterating.i + 1
                /\ iterating'.examined = iterating.examined + 1)]_vars
    /\ ((iterating.pc = "loop") ~> (iterating.pc = "returned"))

\* iter has returned nil after a call for key 255 of a full bitmap
C36_Witness ==
    /\ iterating.pc = "returned" /\ iterating.err = "ok"
    /\ Len(iterating.calls) = 256
    /\ iterating.calls[256] = 255

\* no node of the tree is a stub
RECURSIVE Materialised(_)
Materialised(n) ==
    ~n.forksNil /\ \A k \in DOMAIN n.forks : Materialised(n.forks[k].node)

\* the node y is the node x as it was or as its reference loads: flags and
\* reference kept, an entry that was in memory kept, and for a node that was
\* no stub the keys and prefixes of its forks kept
KeptNode(x, y) ==
    /\ y.nodeType = x.nodeType
    /\ y.refNil = x.refNil /\ y.ref = x.ref
    /\ x.entry # <<>> => y.entry = x.entry
    /\ ~x.forksNil =>
           /\ ~y.forksNil
           /\ y.entry = x.entry
           /\ DOMAIN y.forks = DOMAIN x.forks
           /\ \A k \in DOMAIN x.forks : y.forks[k].prefix = x.forks[k].prefix

\* every node of the tree old is kept in the tree new, at its path
KeptTree(new, old) ==
    \A x \in Located(old, <<>>) :
        \E y \in Located(new, <<>>) : y.path = x.path /\ KeptNode(x.node, y.node)

\* what a Save of the tree would return and leave as the reference
saveOutcome(r) == [err |-> r.err, ref |-> r.node.ref]

SaveOutcome(n) ==
    saveOutcome(Save(n, LoadSaver(store), CHOOSE key \in ObfuscationKeys : TRUE, FALSE))

LookupStepped == nops' = nops + 1 /\ last'.op \in {"Lookup", "Lookup(nil)"}

EachStuck ==
    /\ each.phase = "running"
    /\ \E p \in DOMAIN each.pc : each.pc[p] # "done"
    /\ \A p \in DOMAIN each.pc :
           \/ each.pc[p] = "done"
           \/ each.pc[p] = "rlock" /\ each.mu.writer

\* the callback was called once for every entry, and a failure of the
\* callback is what EachEntryAsync returns
EachCalledOnce ==
    /\ {each.calls[i] : i \in 1..Len(each.calls)} = DOMAIN manifest.Entries
    /\ Len(each.calls) = Cardinality(DOMAIN manifest.Entries)
    /\ (each.err = "ok") <=> (each.failAt = {})

\* C38: EachEntryAsync calls back once for every entry and returns, with
\* the error of a callback if one failed, also when the callback calls
\* Lookup or Length on the same manifest: no goroutine waits for ever for
\* the lock.
C38_EachEntryReturns ==
    /\ ~EachStuck
    /\ (each.phase = "returned" /\ last.op = "EachEntryAsync") => EachCalledOnce

\* the goroutines of the Save under way that are about to close(closed)
Closing == {a \in DOMAIN saving.pc : saving.pc[a] = "close"}

\* the goroutine of the node a can take its next step
SaveCanMove(a) ==
    \/ saving.pc[a] \in {"enter", "marshal", "close"}
    \/ /\ saving.pc[a] = "wait"
       /\ \A b \in DOMAIN saving.pc :
              (b # <<>> /\ Parent(b) = a) => saving.pc[b] = "done"
    \/ a = <<>> /\ saving.pc[a] = "done"

\* closed is closed at most once, by the one goroutine whose error went
\* into errc
ClosedOnce ==
    /\ Cardinality(Closing) <= 1
    /\ Closing # {} => (~saving.closed /\ saving.errc # "ok")
    /\ saving.closed => saving.errc # "ok"

\* a Save under way has a goroutine that can run: none waits to send
SaveNotBlocked ==
    saving.phase = "running" => \E a \in DOMAIN saving.pc : SaveCanMove(a)

\* Save has returned: every goroutine is over, and the error is the one in
\* errc, there exactly when a node failed
SaveReturned ==
    saving.phase = "returned" =>
        /\ \A a \in DOMAIN saving.pc : saving.pc[a] = "done"
        /\ saving.err = saving.errc
        /\ (saving.errc # "ok") <=> (saving.failed # {})

\* how far the goroutine of a node has come
SaveRank(pc) ==
    CASE pc = "enter" -> 0 [] pc = "wait" -> 1 [] pc = "marshal" -> 2
      [] pc = "close" -> 3 [] pc = "done" -> 4

\* a step of a Save under way takes no goroutine back and takes one forward:
\* it starts it, moves it on or lets Save return
SaveAdvances ==
    (saving.phase = "running" /\ saving' # saving) =>
        /\ DOMAIN saving.pc \subseteq DOMAIN saving'.pc
        /\ \A a \in DOMAIN saving.pc :
               SaveRank(saving'.pc[a]) >= SaveRank(saving.pc[a])
        /\ \/ saving'.phase = "returned"
           \/ \E a \in DOMAIN saving.pc :
                  SaveRank(saving'.pc[a]) > SaveRank(saving.pc[a])

\* C39: Save comes to an end however its goroutines interleave, also when
\* several subtrees fail: a goroutine can always run and every step takes
\* one of the finitely many goroutines forward; one error goes into errc and
\* stays, closed is closed once, no goroutine waits to send its error, and
\* every goroutine is over when Save returns.
C39_SaveTerminates ==
    /\ [](ClosedOnce /\ SaveNotBlocked /\ SaveReturned)
    /\ [][SaveAdvances]_vars
    /\ [][(saving.phase = "running" /\ saving.errc # "ok")
            => saving'.errc = saving.errc]_vars
    /\ [][(saving.closed /\ saving.phase = "running") => saving'.closed]_vars

\* a Save has returned an error after two nodes failed
C39_Witness ==
    /\ saving.phase = "returned" /\ saving.err # "ok"
    /\ Cardinality(saving.failed) >= 2

=============================================================================
